---- MODULE Spec2Model ----
(***************************************************************************)
(* Opportunity discovery pipeline of the marketing scraper: the            *)
(* deduplicating post store (scrapers/base_scraper.py, init_db.py), the    *)
(* retry/backoff decorator, the source adapters with their cron wrappers   *)
(* and the heartbeat table with the health job and view                    *)
(* (jobs/health_check.py, dashboard.py), the relevance classifier          *)
(* (processing/classifier.py) and the keyword consensus engine             *)
(* (processing/keyword_suggester.py).                                      *)
(***************************************************************************)
EXTENDS Integers, Sequences, FiniteSets, TLC

VARIABLES
    posts,      \* the posts table: a sequence of rows, row id = position
    ipc,        \* insert_post callers: position of each caller
    iarg,       \* insert_post callers: arguments of the call in flight
    calls,      \* completed insert_post calls, in order of return
    tick,       \* logical time: one tick per call start and per return
    rpc,        \* retry wrapper: position in the wrapper
    rcfg,       \* retry wrapper: max_retries and base_delay of the decorator
    rattempt,   \* retry wrapper: the loop variable attempt
    rlast,      \* retry wrapper: last_exception
    rout,       \* retry wrapper: the value returned or the exception raised
    rtrace,     \* retry wrapper: invocations of f and sleeps, in order
    bizActive,  \* businesses.is_active of each business
    kwActive,   \* keywords.is_active of each keyword row
    hb,         \* the heartbeats table: one row per scraper_name, or NoRow
    now,        \* datetime.now(), as a counter
    job,        \* the cron jobs: position, locals and bookkeeping of each
    heartbeats, \* the heartbeats table as rows, in insertion order
    beat,       \* update_heartbeat callers: the call in flight of each
    beats,      \* committed update_heartbeat calls, in commit order
    report,     \* check_health: its output for the present table and clock
    view,       \* render_health_tab: its output for the present table and clock
    analysis,   \* the analysis table: a sequence of rows
    cls,        \* classify_posts: position and locals of the run under way
    runs,       \* finished classify_posts runs, in order
    task,       \* suggest_keywords: the query_model task of each model
    sug,        \* suggest_keywords: position and outcome of the call
    main,       \* the cron entry point under way: position and locals
    exits,      \* the entry points that have exited, in order
    bizRows,    \* the ids of the rows of the businesses table
    dash,       \* the dashboard's writes: bookkeeping of the latest ones
    feed        \* repeated classification: the batch size of the runs and
                \* the posts the model answers with a malformed response

storeVars == <<posts, ipc, iarg, calls, tick>>

retryVars == <<rpc, rcfg, rattempt, rlast, rout, rtrace>>

registryVars == <<bizActive, kwActive>>

heartbeatVars == <<heartbeats, beat, beats, report, view>>

classifierVars == <<analysis, cls, runs>>

suggesterVars == <<task, sug>>

entryVars == <<main, exits>>

dashVars == <<bizRows, dash>>

feedVars == <<feed>>

pipelineVars ==
    <<heartbeatVars, classifierVars, suggesterVars, entryVars, dashVars,
      feedVars>>

vars == <<posts, ipc, iarg, calls, tick,
          rpc, rcfg, rattempt, rlast, rout, rtrace,
          bizActive, kwActive, hb, now, job,
          heartbeats, beat, beats, report, view,
          analysis, cls, runs, task, sug, main, exits, bizRows, dash,
          feed>>

\* What the actions of one component leave alone.
notStore == <<retryVars, registryVars, hb, now, job, pipelineVars>>

notRetry == <<storeVars, registryVars, hb, now, job, pipelineVars>>

notJobs == <<ipc, iarg, calls, tick, retryVars, pipelineVars>>

notHeartbeat == <<storeVars, retryVars, registryVars, hb, job, classifierVars,
                  suggesterVars, entryVars, dashVars, feedVars>>

notClassifier == <<ipc, iarg, calls, tick, retryVars, hb, now, job,
                   heartbeatVars, suggesterVars, entryVars, dashVars,
                   feedVars>>

notSuggester == <<storeVars, retryVars, registryVars, hb, now, job,
                  heartbeatVars, classifierVars, entryVars, dashVars,
                  feedVars>>

notEntry == <<storeVars, retryVars, registryVars, hb, job, beat, beats,
              report, view, classifierVars, suggesterVars, dashVars,
              feedVars>>

notDash == <<ipc, iarg, calls, tick, retryVars, hb, now, job, heartbeatVars,
             suggesterVars, entryVars, feedVars>>

-----------------------------------------------------------------------------
(* Bounds of the store model *)

MaxCalls == 3

Procs == {"p1", "p2"}

Sources == {"reddit", "hackernews"}

SourceIds == {"x1", "x2"}

Bodies == {"b1", "b2"}

NoArg == [source |-> "none", source_id |-> "none", body |-> "none",
          start |-> 0, absent |-> FALSE, n0 |-> 0]

-----------------------------------------------------------------------------
(* Text: a string is a sequence of characters *)

\* None where the code has an optional string.
NoneStr == <<"None">>

LowerChar(c) == CASE c = "A" -> "a" [] c = "B" -> "b" [] OTHER -> c

\* str.lower()
Lower(str) == [i \in DOMAIN str |-> LowerChar(str[i])]

\* (x or '')
OrEmpty(str) == IF str = NoneStr THEN <<>> ELSE str

\* a in b, for strings
PyIn(a, b) ==
    \E i \in 1..(Len(b) - Len(a) + 1) : SubSeq(b, i, i + Len(a) - 1) = a

\* ' ' in str
HasSpace(str) == \E i \in DOMAIN str : str[i] = " "

RECURSIVE LStrip(_)
LStrip(str) ==
    IF str # <<>> /\ Head(str) = " " THEN LStrip(Tail(str)) ELSE str

RECURSIVE RStrip(_)
RStrip(str) ==
    IF str # <<>> /\ str[Len(str)] = " "
    THEN RStrip(SubSeq(str, 1, Len(str) - 1)) ELSE str

\* str.strip()
Strip(str) == RStrip(LStrip(str))

-----------------------------------------------------------------------------
(* The keyword registry and get_all_keywords *)

Adapters == {"reddit", "hackernews", "tiktok", "instagram", "twitter"}

Jobs == {"j1"}

BusinessIds == {1, 2}

\* The keywords table: "Ab" of business 1, "a b" and "Ab" of business 2,
\* "B" of business 1.
KeywordRows ==
    << [business_id |-> 1, keyword |-> <<"A", "b">>],
       [business_id |-> 2, keyword |-> <<"a", " ", "b">>],
       [business_id |-> 2, keyword |-> <<"A", "b">>],
       [business_id |-> 1, keyword |-> <<"B">>] >>

RECURSIVE DistinctFrom(_, _, _)
DistinctFrom(rows, i, acc) ==
    IF i > Len(rows) THEN acc
    ELSE DistinctFrom(rows, i + 1,
            IF \E j \in DOMAIN acc : acc[j] = rows[i] THEN acc
            ELSE Append(acc, rows[i]))

\* Registries the runs start from, as <<businesses.is_active,
\* keywords.is_active>>; the keyword lists they give are "Ab", "a b" (a
\* keyword of two businesses listed once); "Ab", "B"; "a b", "Ab"; none
\* (active keywords of inactive businesses); none (no active keyword); "B";
\* "a b".
RegistryConfigs ==
    { << <<TRUE, TRUE>>, <<TRUE, TRUE, TRUE, FALSE>> >>,
      << <<TRUE, TRUE>>, <<TRUE, FALSE, FALSE, TRUE>> >>,
      << <<FALSE, TRUE>>, <<TRUE, TRUE, TRUE, TRUE>> >>,
      << <<FALSE, FALSE>>, <<TRUE, TRUE, TRUE, TRUE>> >>,
      << <<TRUE, TRUE>>, <<FALSE, FALSE, FALSE, FALSE>> >>,
      << <<TRUE, FALSE>>, <<FALSE, TRUE, TRUE, TRUE>> >>,
      << <<TRUE, TRUE>>, <<FALSE, TRUE, FALSE, FALSE>> >> }

IsSelectedIgnoringBusiness(i) == kwActive[i]

\* WHERE k.is_active = 1 AND b.is_active = 1
IsSelected(i) == kwActive[i] /\ bizActive[KeywordRows[i].business_id]

\* get_all_keywords: SELECT DISTINCT k.keyword FROM keywords k JOIN businesses b
\* (rows in table order, a keyword listed once).
GetAllKeywords ==
    LET sel == SelectSeq([i \in DOMAIN KeywordRows |-> i], IsSelected)
    IN  DistinctFrom([n \in DOMAIN sel |-> KeywordRows[sel[n]].keyword],
                     1, <<>>)

-----------------------------------------------------------------------------
(* The heartbeats table and update_heartbeat *)

\* NULL in the text column last_error and in the time column last_success
\* (times are counted from 0).
Null == "NULL"

NullTime == -1

NoRow == [exists |-> FALSE, last_success |-> NullTime, last_error |-> Null,
          posts_found |-> 0]

\* The success branch: INSERT ... ON CONFLICT(scraper_name) DO UPDATE SET
\* last_success, last_error = NULL, posts_found.
HeartbeatSuccess(row, t, posts_found) ==
    [exists |-> TRUE, last_success |-> t, last_error |-> Null,
     posts_found |-> posts_found]

HeartbeatFailureReplacesRow(row, error) ==
    [exists |-> TRUE, last_success |-> NullTime, last_error |-> error,
     posts_found |-> 0]

\* The failure branch: INSERT (scraper_name, last_error) ... ON CONFLICT DO
\* UPDATE SET last_error.
HeartbeatFailure(row, error) ==
    [exists |-> TRUE, last_success |-> row.last_success,
     last_error |-> error, posts_found |-> row.posts_found]

\* Rows earlier runs can have left: none, a success, a failure, a failure
\* after a success.
EarlierRows ==
    { NoRow,
      HeartbeatSuccess(NoRow, 0, 1),
      HeartbeatFailure(NoRow, "error"),
      HeartbeatFailure(HeartbeatSuccess(NoRow, 0, 1), "error") }

\* str(error) if error else 'Unknown error'
ErrorText(error) == IF error = "" THEN "Unknown error" ELSE error

\* update_heartbeat(scraper_name, success, error, posts_found)
UpdateHeartbeat(table, name, success, error, posts_found, t) ==
    [table EXCEPT ![name] =
        IF success THEN HeartbeatSuccess(table[name], t, posts_found)
        ELSE HeartbeatFailure(table[name], ErrorText(error))]

-----------------------------------------------------------------------------
(* The Hacker News adapter's local filter *)

\* Items the Firebase API can return for a story id.
HNItems ==
    << [id |-> 1, deleted |-> FALSE, dead |-> FALSE, type |-> "story",
        title |-> <<"x", "a">>, text |-> <<"b", "x">>],
       [id |-> 2, deleted |-> FALSE, dead |-> FALSE, type |-> "story",
        title |-> <<"a">>, text |-> <<"b">>],
       [id |-> 3, deleted |-> FALSE, dead |-> FALSE, type |-> "story",
        title |-> <<"x", "A", "B">>, text |-> NoneStr],
       [id |-> 4, deleted |-> TRUE, dead |-> FALSE, type |-> "story",
        title |-> <<"a", "b">>, text |-> NoneStr],
       [id |-> 5, deleted |-> FALSE, dead |-> FALSE, type |-> "comment",
        title |-> NoneStr, text |-> <<"a", "b">>],
       [id |-> 6, deleted |-> FALSE, dead |-> FALSE, type |-> "story",
        title |-> <<"x", "x">>, text |-> <<"a">>] >>

MatchesKeywordsCaseSensitive(item, keywords) ==
    LET searchable == OrEmpty(item.title) \o <<" ">> \o OrEmpty(item.text)
    IN  \E k \in DOMAIN keywords : PyIn(keywords[k], searchable)

\* matches_keywords: searchable = f"{title} {text}", both lower-cased;
\* true when some keyword.lower() is in searchable.
MatchesKeywords(item, keywords) ==
    LET title == Lower(OrEmpty(item.title))
        text == Lower(OrEmpty(item.text))
        searchable == title \o <<" ">> \o text
    IN  \E k \in DOMAIN keywords : PyIn(Lower(keywords[k]), searchable)

\* The checks of scrape_hackernews before insert_post: not deleted or dead,
\* a story, matching a keyword.
HNRetained(item, keywords) ==
    /\ ~(item.deleted \/ item.dead)
    /\ item.type = "story"
    /\ MatchesKeywords(item, keywords)

-----------------------------------------------------------------------------
(* The posts table and insert_post *)

\* Number of stored rows of one (source, source_id) pair.
RowsOfPair(table, source, source_id) ==
    Cardinality({i \in 1..Len(table) :
                   table[i].source = source /\ table[i].source_id = source_id})

\* SELECT 1 FROM posts WHERE source_id = ?
PostExists(table, source_id) ==
    \E i \in 1..Len(table) : table[i].source_id = source_id

NoUniqueConstraint(table, source_id) == FALSE

\* posts.source_id TEXT UNIQUE NOT NULL: the INSERT raises IntegrityError
\* when a row with this source_id is stored, whatever its source.
UniqueViolation(table, source_id) ==
    \E i \in 1..Len(table) : table[i].source_id = source_id

NewRowColumnsSwapped(table, source, source_id, body) ==
    [id |-> Len(table) + 1, source |-> source_id, source_id |-> source,
     body |-> body]

\* The row an INSERT stores: AUTOINCREMENT id, then the columns given.
NewRow(table, source, source_id, body) ==
    [id |-> Len(table) + 1, source |-> source, source_id |-> source_id,
     body |-> body]

\* Whether a row with this source_id / this (source, source_id) pair is stored,
\* read off the table itself (bookkeeping of the call log, not program code).
HasSid(table, source_id) ==
    \E i \in DOMAIN table : table[i].source_id = source_id

HasPair(table, source, source_id) ==
    \E i \in DOMAIN table :
        table[i].source = source /\ table[i].source_id = source_id

HasRow(table, source, source_id, body) ==
    \E i \in DOMAIN table :
        /\ table[i].source = source
        /\ table[i].source_id = source_id
        /\ table[i].body = body

DuplicateReturnsTrue == "true"

\* if post_exists(source_id): return False
DuplicateReturn == "false"

\* except sqlite3.IntegrityError: return False
IntegrityErrorReturn == "false"

\* insert_post begins: the caller passes its arguments.
CallInsert(p, source, source_id, body) ==
    /\ ipc[p] = "idle"
    /\ Len(calls) + Cardinality({q \in Procs : ipc[q] # "idle"}) < MaxCalls
    /\ ipc' = [ipc EXCEPT ![p] = "check"]
    /\ iarg' = [iarg EXCEPT ![p] =
                  [source |-> source, source_id |-> source_id, body |-> body,
                   start |-> tick + 1,
                   absent |-> ~HasSid(posts, source_id),
                   n0 |-> Len(posts)]]
    /\ tick' = tick + 1
    /\ UNCHANGED <<posts, calls>>
    /\ UNCHANGED notStore

\* The log entry of a call that returns ret, leaving the table as after.
Returned(p, ret, path, after) ==
    [proc |-> p, source |-> iarg[p].source, source_id |-> iarg[p].source_id,
     body |-> iarg[p].body, ret |-> ret, path |-> path,
     start |-> iarg[p].start, end |-> tick + 1, absent |-> iarg[p].absent,
     n0 |-> iarg[p].n0, n1 |-> Len(after),
     hadSid |-> HasSid(posts, iarg[p].source_id),
     hadPair |-> HasPair(posts, iarg[p].source, iarg[p].source_id),
     stored |-> HasRow(after, iarg[p].source, iarg[p].source_id, iarg[p].body)]

\* if post_exists(source_id): return False
CheckExists(p) ==
    /\ ipc[p] = "check"
    /\ IF PostExists(posts, iarg[p].source_id)
       THEN /\ ipc' = [ipc EXCEPT ![p] = "idle"]
            /\ iarg' = [iarg EXCEPT ![p] = NoArg]
            /\ calls' = Append(calls, Returned(p, DuplicateReturn, "exists", posts))
            /\ tick' = tick + 1
       ELSE /\ ipc' = [ipc EXCEPT ![p] = "insert"]
            /\ UNCHANGED <<iarg, calls, tick>>
    /\ UNCHANGED posts
    /\ UNCHANGED notStore

\* The INSERT and commit, or the IntegrityError handler returning False.
DoInsert(p) ==
    /\ ipc[p] = "insert"
    /\ IF UniqueViolation(posts, iarg[p].source_id)
       THEN /\ calls' = Append(calls, Returned(p, IntegrityErrorReturn,
                                                "integrity", posts))
            /\ UNCHANGED posts
       ELSE /\ posts' = Append(posts, NewRow(posts, iarg[p].source,
                                             iarg[p].source_id, iarg[p].body))
            /\ calls' = Append(calls, Returned(p, "true", "inserted", posts'))
    /\ ipc' = [ipc EXCEPT ![p] = "idle"]
    /\ iarg' = [iarg EXCEPT ![p] = NoArg]
    /\ tick' = tick + 1
    /\ UNCHANGED notStore

StoreIdle ==
    /\ posts = <<>>
    /\ ipc = [p \in Procs |-> "idle"]
    /\ iarg = [p \in Procs |-> NoArg]
    /\ calls = <<>>
    /\ tick = 0

RetryIdle ==
    /\ rpc = "idle"
    /\ rcfg = [max_retries |-> 0, base_delay |-> 0]
    /\ rattempt = 0
    /\ rlast = "None"
    /\ rout = "None"
    /\ rtrace = <<>>

NoBeat == [name |-> "none", success |-> FALSE, error |-> "",
           posts_found |-> 0, t |-> 0]

NoReport == [done |-> FALSE, status |-> <<>>, healthy |-> 0]

NoView == [done |-> FALSE, icon |-> <<>>, text |-> <<>>]

HeartbeatIdle ==
    /\ heartbeats = <<>>
    /\ beat = [p \in Procs |-> NoBeat]
    /\ beats = <<>>
    /\ report = NoReport
    /\ view = NoView

\* The locals of classify_posts (pc, businesses, posts as batch, the loop
\* position i, classified_count as count) and the bookkeeping of the run:
\* n (batch_size), fresh (the batch held only posts without an analysis
\* row), sent (classify_post calls), complete (calls answered by a verdict
\* with all its fields), skipped (posts whose response was malformed), last
\* (the post and the response of the latest call, with the analysis table
\* and classified_count before it), ret, raised.
NoLast == [post |-> 0, resp |-> [kind |-> "none"], before |-> <<>>,
           count |-> 0]

NoRun == [pc |-> "idle", n |-> 0, businesses |-> <<>>, batch |-> <<>>,
          i |-> 0, count |-> 0, fresh |-> TRUE, sent |-> 0, complete |-> 0,
          skipped |-> {}, last |-> NoLast, ret |-> 0, raised |-> FALSE]

ClassifierIdle ==
    /\ analysis = <<>>
    /\ cls = NoRun
    /\ runs = <<>>

\* MODELS: the name of each model, in the order of the dict's keys.
ModelNames == <<"gpt-5.2", "claude-opus-4.5", "gemini-3-pro">>

NoTask == [st |-> "idle", resp |-> [kind |-> "none"],
           error |-> Null, keywords |-> <<>>]

SuggesterIdle ==
    /\ task = [k \in DOMAIN ModelNames |-> NoTask]
    /\ sug = [pc |-> "idle", out |-> <<>>]

\* The locals of a cron wrapper (pc, its own name, posts_found as ret, the
\* text of the exception as err) and the bookkeeping of its run: raised (the
\* work raised), attempts (its update_heartbeat calls), wrote (the call
\* committed its row), status (the exit status, -1 before the exit).
NoMain == [pc |-> "idle", name |-> "none", raised |-> FALSE, ret |-> 0,
           err |-> "", attempts |-> <<>>, wrote |-> FALSE, status |-> -1]

EntryIdle ==
    /\ main = NoMain
    /\ exits = <<>>

\* The bookkeeping of the dashboard's writes: next (the id AUTOINCREMENT
\* gives the next business), edits (status updates made), edited (the
\* analysis rows whose status was updated), last (the latest status update:
\* the row before and after it), deleted (the businesses deleted).
NoEdit == [id |-> 0]

NoDash == [next |-> 3, edits |-> 0, edited |-> {}, last |-> NoEdit,
           deleted |-> {}]

DashIdle ==
    /\ bizRows = {1, 2}
    /\ dash = NoDash

NoFeed == [batch_size |-> 0, malformed |-> {}]

FeedIdle == feed = NoFeed

PipelineIdle ==
    /\ HeartbeatIdle
    /\ ClassifierIdle
    /\ SuggesterIdle
    /\ EntryIdle
    /\ DashIdle
    /\ FeedIdle

\* A job's locals (pc .. ret) and the bookkeeping of its run: req (an upstream
\* request was issued), inserted (insert_post calls that returned true),
\* offered (insert_post calls), seen (candidates retrieved, less those the
\* Hacker News filter drops), lost (candidates
\* whose handling failed), searched (keyword positions searched), failed
\* (positions whose search failed), limited (positions whose search met a
\* rate limit), unavailable (the upstream could not be reached at all), hbPre and
\* hbPost (the heartbeat row before and after the wrapper's record), hnlog
\* (items fetched by the Hacker News run, with whether each was offered),
\* slept (the pacing sleep has elapsed since the latest search), unpaced
\* (positions whose search was issued after an earlier search with no pacing
\* sleep in between).
NoJob ==
    [pc |-> "idle", adapter |-> "none", kws |-> <<>>, ki |-> 0, ci |-> 0,
     cur |-> <<>>, path |-> "none", new_posts |-> 0, total |-> 0,
     ret |-> -1, raised |-> FALSE,
     req |-> FALSE, inserted |-> 0, offered |-> 0, seen |-> 0, lost |-> 0,
     searched |-> {}, failed |-> {}, limited |-> {},
     unavailable |-> FALSE,
     hbPre |-> NoRow, hbPost |-> NoRow, hnlog |-> {},
     slept |-> FALSE, unpaced |-> {}]

RegistryIdle ==
    /\ bizActive = [b \in BusinessIds |-> TRUE]
    /\ kwActive = [i \in DOMAIN KeywordRows |-> TRUE]

JobsIdle ==
    /\ RegistryIdle
    /\ hb = [a \in Adapters |-> NoRow]
    /\ now = 0
    /\ job = [r \in Jobs |-> NoJob]

InitStore == StoreIdle /\ RetryIdle /\ JobsIdle /\ PipelineIdle

NextStore ==
    \/ \E p \in Procs, s \in Sources, i \in SourceIds, b \in Bodies :
          CallInsert(p, s, i, b)
    \/ \E p \in Procs : CheckExists(p)
    \/ \E p \in Procs : DoInsert(p)

SpecStore == InitStore /\ [][NextStore]_vars

-----------------------------------------------------------------------------
(* Claims about the store *)

InFlight(source_id) ==
    \E p \in Procs : ipc[p] # "idle" /\ iarg[p].source_id = source_id

CallsOfSid(source_id) ==
    {k \in DOMAIN calls : calls[k].source_id = source_id}

Overlap(a, b) == a.start < b.end /\ b.start < a.end

\* No other completed call on the same source_id ran while call k ran.
Alone(k) ==
    \A j \in DOMAIN calls :
        (j # k /\ calls[j].source_id = calls[k].source_id)
            => ~Overlap(calls[j], calls[k])

\* No other completed call at all ran while call k ran.
Solo(k) ==
    \A j \in DOMAIN calls : j # k => ~Overlap(calls[j], calls[k])

\* C1: when callers race on one (source, source_id) key, under every
\* interleaving of their existence checks and INSERTs the table never holds
\* two rows of the key, no call raises, and once the calls have returned the
\* table holds exactly one row of the key and exactly one call returned true.
C1_ConcurrentInsertStoresOnce ==
    /\ \A k \in DOMAIN calls : calls[k].ret \in {"true", "false"}
    /\ \A s \in Sources, i \in SourceIds :
          /\ RowsOfPair(posts, s, i) <= 1
          /\ ( /\ ~InFlight(i)
               /\ CallsOfSid(i) # {}
               /\ \A k \in CallsOfSid(i) : calls[k].source = s )
             => /\ RowsOfPair(posts, s, i) = 1
                /\ Cardinality({k \in CallsOfSid(i) :
                                   calls[k].ret = "true"}) = 1

\* Two calls on one key both passed the existence check before either
\* inserted: one stored the row, the other hit the uniqueness constraint.
C1_Witness ==
    \E j, k \in DOMAIN calls :
        /\ calls[j].source = calls[k].source
        /\ calls[j].source_id = calls[k].source_id
        /\ Overlap(calls[j], calls[k])
        /\ calls[j].path = "inserted"
        /\ calls[k].path = "integrity"
        /\ ~InFlight(calls[k].source_id)

\* C2: of two insert_post calls on one (source, source_id) made one after
\* the other, the first (on a key not yet stored) returns true, the second
\* returns false and leaves the number of stored posts as it found it, and
\* one row of the key is stored.
C2_SecondInsertIsNoOp ==
    \A j, k \in DOMAIN calls :
        ( /\ calls[j].source = calls[k].source
          /\ calls[j].source_id = calls[k].source_id
          /\ calls[j].end < calls[k].start )
        => /\ (Alone(j) /\ calls[j].absent) => calls[j].ret = "true"
           /\ calls[k].ret = "false"
           /\ Solo(k) => calls[k].n1 = calls[k].n0
           /\ calls[j].ret = "true" =>
                 RowsOfPair(posts, calls[k].source, calls[k].source_id) = 1

C2_Witness ==
    \E j, k \in DOMAIN calls :
        /\ calls[j].source = calls[k].source
        /\ calls[j].source_id = calls[k].source_id
        /\ calls[j].end < calls[k].start
        /\ Alone(j) /\ Solo(k) /\ calls[j].absent
        /\ calls[j].ret = "true" /\ calls[k].ret = "false"
        /\ calls[k].body # calls[j].body

\* C3 as claimed: the dedup key is the (source, source_id) pair: a call
\* returns false exactly when a post of the same pair is stored, and
\* otherwise returns true and stores the post.
C3_DedupKeyIsPair ==
    \A k \in DOMAIN calls :
        /\ calls[k].ret = "false" <=> calls[k].hadPair
        /\ ~calls[k].hadPair => (calls[k].ret = "true" /\ calls[k].stored)

\* C3 amended: the dedup key is source_id alone: a call returns false exactly
\* when a post with the same source_id is stored, whatever its source, and
\* otherwise returns true and stores the post as given.
C3_DedupKeyIsSourceId ==
    \A k \in DOMAIN calls :
        /\ calls[k].ret = "false" <=> calls[k].hadSid
        /\ ~calls[k].hadSid =>
              /\ calls[k].ret = "true"
              /\ calls[k].stored
              /\ calls[k].n1 = calls[k].n0 + 1
                    \/ \E j \in DOMAIN calls :
                          j # k /\ Overlap(calls[j], calls[k])

\* A post is refused because a post of another source holds its source_id.
C3_Witness ==
    \E j, k \in DOMAIN calls :
        /\ calls[j].source # calls[k].source
        /\ calls[j].source_id = calls[k].source_id
        /\ calls[j].ret = "true"
        /\ calls[k].ret = "false"
        /\ ~calls[k].hadPair

-----------------------------------------------------------------------------
(* The source adapters and their cron wrappers *)

MaxCands == 2

NativeIds == {1, 2}

\* Ways a search, a listing or an iteration step can fail.
FailKinds == {"notfound", "ratelimit", "connection", "other"}

\* The source_id an adapter gives a candidate: f"hn_{id}", f"tiktok_{id}",
\* f"instagram_{shortcode}", f"twitter_{id}", f"reddit_{id}" on Reddit's JSON
\* path, data-fullname (t3_<id>) on Reddit's HTML path.
SourceIdOf(adapter, path, native) ==
    CASE adapter = "hackernews" -> <<"hn", native>>
      [] adapter = "tiktok" -> <<"tiktok", native>>
      [] adapter = "instagram" -> <<"instagram", native>>
      [] adapter = "twitter" -> <<"twitter", native>>
      [] adapter = "reddit" /\ path = "html" -> <<"t3", native>>
      [] OTHER -> <<"reddit", native>>

\* Adapters that set up a client library before the keyword loop.
NeedsSetup(adapter) == adapter \in {"twitter", "instagram"}

\* Instagram: ' ' in keyword.strip() (a phrase is skipped, not searched).
SkipsKeyword(adapter, keyword) ==
    adapter = "instagram" /\ HasSpace(Strip(keyword))

\* Paths by which a successful search returns its results.
SearchPaths(adapter) ==
    IF adapter = "reddit" THEN {"json", "html"} ELSE {"direct"}

HandlerAlwaysBreaks(adapter, kind) == "break"

\* The keyword loop's except clauses: every one ends in continue, but
\* Instagram's TooManyRequestsException clause, which ends in break.
SearchFailureHandler(adapter, kind) ==
    IF adapter = "instagram" /\ kind = "ratelimit" THEN "break" ELSE "continue"

\* Adapters whose results arrive lazily, so that fetching the next candidate
\* can fail inside the keyword's try block (instaloader's get_posts()).
LazyResults(adapter) == adapter = "instagram"

\* Adapters that wrap the handling of one candidate in its own try/except.
InnerTry(adapter) == adapter \in {"tiktok", "instagram", "twitter"}

\* Adapters with time.sleep(RATE_LIMIT_DELAY) / asyncio.sleep(3) as the
\* last statement of the keyword's try block.
PacingSleep(adapter) == adapter \in {"reddit", "tiktok", "twitter"}

\* The search request of keyword ki goes out.
Requested(j) ==
    [j EXCEPT !.req = TRUE, !.slept = FALSE,
              !.unpaced = IF j.req /\ ~j.slept THEN @ \cup {j.ki} ELSE @]

\* return total_posts
ReturnValue(j) == j.total

Finished(j, value) == [j EXCEPT !.pc = "ret", !.ret = value]

\* The cron wrapper starts the scraper: keywords = get_all_keywords();
\* if not keywords: return 0.
StartJob(r, a) ==
    /\ job[r].pc = "idle"
    /\ LET j == [job[r] EXCEPT !.adapter = a, !.kws = GetAllKeywords]
       IN  job' = [job EXCEPT ![r] =
                IF j.kws = <<>> THEN Finished(j, 0)
                ELSE IF a = "hackernews" THEN [j EXCEPT !.pc = "listing"]
                ELSE IF NeedsSetup(a) THEN [j EXCEPT !.pc = "setup"]
                ELSE [j EXCEPT !.pc = "kw", !.ki = 1]]
    /\ UNCHANGED <<posts, registryVars, hb, now>>
    /\ UNCHANGED notJobs

\* Twitter and Instagram: import and set up the client inside the outer try;
\* ImportError, a missing cookies file or any exception returns 0.
Setup(r, ok) ==
    /\ job[r].pc = "setup"
    /\ job' = [job EXCEPT ![r] =
          IF ok THEN [@ EXCEPT !.pc = "kw", !.ki = 1]
          ELSE Finished([@ EXCEPT !.unavailable = TRUE], 0)]
    /\ UNCHANGED <<posts, registryVars, hb, now>>
    /\ UNCHANGED notJobs

\* Hacker News: story_ids = fetch_new_stories(limit=500); when it raises
\* (its retries exhausted) the run returns 0.
HNListing(r, ok) ==
    /\ job[r].pc = "listing"
    /\ job' = [job EXCEPT ![r] =
          IF ok THEN [@ EXCEPT !.pc = "item", !.req = TRUE]
          ELSE Finished([@ EXCEPT !.req = TRUE, !.unavailable = TRUE], 0)]
    /\ UNCHANGED <<posts, registryVars, hb, now>>
    /\ UNCHANGED notJobs

\* Hacker News: one pass of the story loop up to insert_post. fetch_item
\* raises or returns nothing (continue), or returns item n, which is dropped
\* by the checks or goes to insert_post.
HNFetchItem(r, n, ok) ==
    /\ job[r].pc = "item"
    /\ job[r].ci < MaxCands
    /\ LET j == [job[r] EXCEPT !.ci = @ + 1]
           item == HNItems[n]
       IN  job' = [job EXCEPT ![r] =
              IF ~ok THEN [j EXCEPT !.seen = @ + 1, !.lost = @ + 1]
              ELSE IF HNRetained(item, j.kws)
              THEN [j EXCEPT !.pc = "check", !.seen = @ + 1,
                             !.cur = SourceIdOf("hackernews", "direct", item.id),
                             !.hnlog = @ \cup {<<n, TRUE>>}]
              ELSE [j EXCEPT !.hnlog = @ \cup {<<n, FALSE>>}]]
    /\ UNCHANGED <<posts, registryVars, hb, now>>
    /\ UNCHANGED notJobs

\* Hacker News: the story list is exhausted: return total_posts.
HNEnd(r) ==
    /\ job[r].pc = "item"
    /\ job' = [job EXCEPT ![r] = Finished(@, ReturnValue(@))]
    /\ UNCHANGED <<posts, registryVars, hb, now>>
    /\ UNCHANGED notJobs

\* The next keyword of the loop.
NextKeyword(j) == [j EXCEPT !.pc = "kw", !.ki = @ + 1, !.ci = 0]

\* What the loop does when the try block of keyword ki raises kind.
Handle(j, kind) ==
    LET f == [j EXCEPT !.failed = @ \cup {j.ki},
                       !.limited = IF kind = "ratelimit"
                                   THEN @ \cup {j.ki} ELSE @]
    IN  IF SearchFailureHandler(j.adapter, kind) = "break"
        THEN Finished(f, ReturnValue(f))
        ELSE NextKeyword(f)

\* Instagram passes over a phrase keyword without searching.
SkipKeyword(r) ==
    /\ job[r].pc = "kw"
    /\ job[r].ki <= Len(job[r].kws)
    /\ SkipsKeyword(job[r].adapter, job[r].kws[job[r].ki])
    /\ job' = [job EXCEPT ![r] = NextKeyword(@)]
    /\ UNCHANGED <<posts, registryVars, hb, now>>
    /\ UNCHANGED notJobs

\* The search for keyword ki returns its results by one of the adapter's paths.
SearchOk(r, path) ==
    /\ job[r].pc = "kw"
    /\ job[r].ki <= Len(job[r].kws)
    /\ ~SkipsKeyword(job[r].adapter, job[r].kws[job[r].ki])
    /\ path \in SearchPaths(job[r].adapter)
    /\ job' = [job EXCEPT ![r] =
                 [Requested(@) EXCEPT !.pc = "cand", !.path = path,
                                      !.new_posts = 0, !.ci = 0,
                                      !.searched = @ \cup {job[r].ki}]]
    /\ UNCHANGED <<posts, registryVars, hb, now>>
    /\ UNCHANGED notJobs

\* The search for keyword ki fails (after the retries of the call, if any).
SearchFails(r, kind) ==
    /\ job[r].pc = "kw"
    /\ job[r].ki <= Len(job[r].kws)
    /\ ~SkipsKeyword(job[r].adapter, job[r].kws[job[r].ki])
    /\ job' = [job EXCEPT ![r] =
                 Handle([Requested(@) EXCEPT
                            !.searched = @ \cup {job[r].ki}], kind)]
    /\ UNCHANGED <<posts, registryVars, hb, now>>
    /\ UNCHANGED notJobs

\* The keyword loop is exhausted: return total_posts.
LoopEnd(r) ==
    /\ job[r].pc = "kw"
    /\ job[r].ki > Len(job[r].kws)
    /\ job' = [job EXCEPT ![r] = Finished(@, ReturnValue(@))]
    /\ UNCHANGED <<posts, registryVars, hb, now>>
    /\ UNCHANGED notJobs

\* The next candidate of the results goes to insert_post.
NextCandidate(r, native) ==
    /\ job[r].pc = "cand"
    /\ job[r].ci < MaxCands
    /\ job' = [job EXCEPT ![r] =
                 [@ EXCEPT !.pc = "check", !.ci = @ + 1, !.seen = @ + 1,
                           !.cur = SourceIdOf(job[r].adapter, job[r].path, native)]]
    /\ UNCHANGED <<posts, registryVars, hb, now>>
    /\ UNCHANGED notJobs

\* Handling the next candidate raises inside the candidate's own try block:
\* except Exception: continue.
CandidateFails(r) ==
    /\ job[r].pc = "cand"
    /\ job[r].ci < MaxCands
    /\ InnerTry(job[r].adapter)
    /\ job' = [job EXCEPT ![r] =
                 [@ EXCEPT !.ci = @ + 1, !.seen = @ + 1, !.lost = @ + 1]]
    /\ UNCHANGED <<posts, registryVars, hb, now>>
    /\ UNCHANGED notJobs

\* Fetching the next candidate raises in the keyword's try block, outside
\* the candidate's own: the keyword's handler runs and new_posts is dropped.
IterationFails(r, kind) ==
    /\ job[r].pc = "cand"
    /\ job[r].ci < MaxCands
    /\ LazyResults(job[r].adapter)
    /\ job' = [job EXCEPT ![r] = Handle(@, kind)]
    /\ UNCHANGED <<posts, registryVars, hb, now>>
    /\ UNCHANGED notJobs

\* The results are exhausted: total_posts += new_posts, the pacing sleep,
\* the next keyword.
ResultsEnd(r) ==
    /\ job[r].pc = "cand"
    /\ job' = [job EXCEPT ![r] =
                 NextKeyword([@ EXCEPT !.total = @ + job[r].new_posts,
                                       !.slept = PacingSleep(job[r].adapter)])]
    /\ UNCHANGED <<posts, registryVars, hb, now>>
    /\ UNCHANGED notJobs

\* Where a run goes on after insert_post returned ret.
AfterInsert(j, ret) ==
    LET k == [j EXCEPT !.offered = @ + 1,
                       !.inserted = IF ret = "true" THEN @ + 1 ELSE @]
    IN  IF j.adapter = "hackernews"
        THEN [k EXCEPT !.pc = "item",
                       !.total = IF ret = "true" THEN @ + 1 ELSE @]
        ELSE [k EXCEPT !.pc = "cand",
                       !.new_posts = IF ret = "true" THEN @ + 1 ELSE @]

\* insert_post in a run: if post_exists(source_id): return False
JobCheckExists(r) ==
    /\ job[r].pc = "check"
    /\ job' = [job EXCEPT ![r] =
                 IF PostExists(posts, @.cur)
                 THEN AfterInsert(@, DuplicateReturn)
                 ELSE [@ EXCEPT !.pc = "insert"]]
    /\ UNCHANGED <<posts, registryVars, hb, now>>
    /\ UNCHANGED notJobs

\* insert_post in a run: the INSERT, or the IntegrityError handler.
JobInsert(r) ==
    /\ job[r].pc = "insert"
    /\ IF UniqueViolation(posts, job[r].cur)
       THEN /\ job' = [job EXCEPT ![r] = AfterInsert(@, IntegrityErrorReturn)]
            /\ UNCHANGED posts
       ELSE /\ posts' = Append(posts, NewRow(posts, job[r].adapter,
                                             job[r].cur, "b1"))
            /\ job' = [job EXCEPT ![r] = AfterInsert(@, "true")]
    /\ UNCHANGED <<registryVars, hb, now>>
    /\ UNCHANGED notJobs

\* A concurrent run of the same adapter commits the INSERT of a post while
\* this run is under way. (Runs of other adapters touch other source_ids and
\* other heartbeat rows.)
ConcurrentInsert(r, path, native) ==
    /\ job[r].pc \notin {"idle", "ret", "done"}
    /\ path \in SearchPaths(job[r].adapter)
    /\ ~UniqueViolation(posts, SourceIdOf(job[r].adapter, path, native))
    /\ posts' = Append(posts,
                  NewRow(posts, job[r].adapter,
                         SourceIdOf(job[r].adapter, path, native), "b2"))
    /\ UNCHANGED <<job, registryVars, hb, now>>
    /\ UNCHANGED notJobs

\* The wrapper calls update_heartbeat with success=True when the scraper
\* returned, with success=False when it raised.
RecordsSuccess(j) == ~j.raised

\* After the scraper the wrapper records the heartbeat and exits 0.
JobFinish(r) ==
    /\ job[r].pc = "ret"
    /\ LET a == job[r].adapter
           h == UpdateHeartbeat(hb, a, RecordsSuccess(job[r]), "error",
                                job[r].ret, now + 1)
       IN  /\ hb' = h
           /\ job' = [job EXCEPT ![r] =
                        [@ EXCEPT !.pc = "done", !.hbPre = hb[a],
                                  !.hbPost = h[a]]]
    /\ now' = now + 1
    /\ UNCHANGED <<posts, registryVars>>
    /\ UNCHANGED notJobs

InitJobs ==
    /\ StoreIdle
    /\ RetryIdle
    /\ \E c \in RegistryConfigs : bizActive = c[1] /\ kwActive = c[2]
    /\ \E row \in EarlierRows : hb = [a \in Adapters |-> row]
    /\ now = 0
    /\ job = [r \in Jobs |-> NoJob]
    /\ PipelineIdle

NextJobs ==
    \/ \E r \in Jobs, a \in Adapters : StartJob(r, a)
    \/ \E r \in Jobs, ok \in BOOLEAN : Setup(r, ok)
    \/ \E r \in Jobs, ok \in BOOLEAN : HNListing(r, ok)
    \/ \E r \in Jobs, n \in DOMAIN HNItems, ok \in BOOLEAN : HNFetchItem(r, n, ok)
    \/ \E r \in Jobs : HNEnd(r)
    \/ \E r \in Jobs : SkipKeyword(r)
    \/ \E r \in Jobs, path \in {"json", "html", "direct"} : SearchOk(r, path)
    \/ \E r \in Jobs, kind \in FailKinds : SearchFails(r, kind)
    \/ \E r \in Jobs : LoopEnd(r)
    \/ \E r \in Jobs, c \in NativeIds : NextCandidate(r, c)
    \/ \E r \in Jobs : CandidateFails(r)
    \/ \E r \in Jobs, kind \in FailKinds : IterationFails(r, kind)
    \/ \E r \in Jobs : ResultsEnd(r)
    \/ \E r \in Jobs : JobCheckExists(r)
    \/ \E r \in Jobs : JobInsert(r)
    \/ \E r \in Jobs : JobFinish(r)
    \/ \E r \in Jobs, path \in {"json", "html", "direct"}, c \in NativeIds :
          ConcurrentInsert(r, path, c)

SpecJobs == InitJobs /\ [][NextJobs]_vars

------------------------------------------------------------------------------
(* Claims about the adapters and their batch entry points *)

Ended(j) == j.pc \in {"ret", "done"}

\* C4: when the Hacker News story listing cannot be fetched (fetch_new_stories
\* failed on all of its attempts), the run ends early, returns the count so
\* far without raising, and the heartbeat row written for the run records a
\* failure: last_error is set and last_success is not advanced.
C4_UnavailableRecordedAsFailure ==
    \A r \in Jobs :
        LET j == job[r]
        IN  (j.adapter = "hackernews" /\ j.unavailable) =>
                /\ Ended(j)
                /\ j.ret = j.total
                /\ ~j.raised
                /\ j.pc = "done" =>
                      /\ j.hbPost.last_error # Null
                      /\ j.hbPost.last_success = j.hbPre.last_success

\* Keyword positions of a run that the adapter searches rather than skips.
Searchable(j) ==
    {k \in DOMAIN j.kws : ~(j.adapter = "instagram" /\ HasSpace(j.kws[k]))}

\* Every candidate retrieved so far was offered to the store or failed in
\* its own handling, but the one whose insert_post call is under way.
CandidatesAccounted(j) ==
    j.seen = j.offered + j.lost + (IF j.pc \in {"check", "insert"} THEN 1 ELSE 0)

\* C5 (as stated): a run that entered its keyword loop has, when it ends,
\* searched every keyword of the active list that the adapter searches at
\* all, whatever failures the searches and candidates of earlier keywords
\* met, a rate-limit response included.
C5_FailureNeverAbortsRun ==
    \A r \in Jobs :
        LET j == job[r]
        IN  (Ended(j) /\ j.adapter # "hackernews" /\ ~j.unavailable) =>
                Searchable(j) \subseteq j.searched

\* C5 (amended): the same, but for Instagram after a rate-limit response:
\* there the run ends at the keyword whose search was rate-limited, so no
\* later keyword is searched; and at every moment every candidate retrieved
\* was offered to the store or failed alone.
C5_FailureIsolatedButInstagramRateLimit ==
    \A r \in Jobs :
        LET j == job[r]
            stopped == j.adapter = "instagram" /\ j.limited # {}
        IN  /\ (Ended(j) /\ j.adapter # "hackernews" /\ ~j.unavailable
                         /\ ~stopped) =>
                   Searchable(j) \subseteq j.searched
            /\ stopped =>
                   /\ Ended(j)
                   /\ \E n \in j.limited :
                         /\ j.limited = {n}
                         /\ \A k \in Searchable(j) : k \in j.searched <=> k <= n
            /\ CandidatesAccounted(j)

\* A Reddit run whose first keyword's search met a rate limit, whose second
\* keyword was searched all the same and had a candidate offered to the
\* store.
C5_Witness ==
    \E r \in Jobs :
        /\ job[r].pc = "done"
        /\ job[r].adapter = "reddit"
        /\ job[r].limited = {1}
        /\ 2 \in job[r].searched
        /\ 2 \notin job[r].failed
        /\ job[r].offered >= 1

\* C6: the value an adapter run returns is the number of its insert_post
\* calls that returned true.
C6_ReturnCountsInserted ==
    \A r \in Jobs : Ended(job[r]) => job[r].ret = job[r].inserted

\* No keyword is active and owned by an active business.
NoActiveKeyword ==
    \A i \in DOMAIN KeywordRows :
        ~kwActive[i] \/ ~bizActive[KeywordRows[i].business_id]

\* C7: with no active keyword of an active business, a run returns 0, issues
\* no upstream request, offers nothing to the store, leaves the posts table
\* as it was, and its heartbeat row records a success with zero posts.
C7_NoKeywordsIsANoOp ==
    \A r \in Jobs :
        LET j == job[r]
        IN  (NoActiveKeyword /\ j.pc # "idle") =>
                /\ Ended(j)
                /\ j.ret = 0
                /\ ~j.raised
                /\ ~j.req
                /\ j.offered = 0
                /\ posts = <<>>
                /\ j.pc = "done" =>
                      /\ j.hbPost.last_error = Null
                      /\ j.hbPost.last_success = now
                      /\ j.hbPost.posts_found = 0

\* A finished run under a registry whose keywords are active while their
\* businesses are not.
C7_Witness ==
    \E r \in Jobs :
        /\ job[r].pc = "done"
        /\ NoActiveKeyword
        /\ \E i \in DOMAIN kwActive : kwActive[i]

\* The texts of the active keywords of active businesses.
ActiveKeywordSet ==
    {KeywordRows[i].keyword :
        i \in {n \in DOMAIN KeywordRows :
                  kwActive[n] /\ bizActive[KeywordRows[n].business_id]}}

SameLetter(c, d) == c = d \/ {c, d} = {"a", "A"} \/ {c, d} = {"b", "B"}

\* k occurs in str, letter case left aside.
OccursIn(k, str) ==
    \E off \in 0..(Len(str) - Len(k)) :
        \A i \in 1..Len(k) : SameLetter(k[i], str[off + i])

LiveStory(item) == ~item.deleted /\ ~item.dead /\ item.type = "story"

\* C8 (as stated): a Hacker News item that was fetched is offered to the
\* store exactly when it is a live story and some active keyword occurs,
\* case-insensitively, in the title followed directly by the body.
C8_OfferedIffInTitleThenBody ==
    \A r \in Jobs : \A e \in job[r].hnlog :
        LET item == HNItems[e[1]]
        IN  e[2] <=> /\ LiveStory(item)
                     /\ \E k \in ActiveKeywordSet :
                           OccursIn(k, OrEmpty(item.title) \o OrEmpty(item.text))

\* C8 (amended): ... in the title, one space, and the body.
C8_OfferedIffInTitleSpaceBody ==
    \A r \in Jobs : \A e \in job[r].hnlog :
        LET item == HNItems[e[1]]
        IN  e[2] <=> /\ LiveStory(item)
                     /\ \E k \in ActiveKeywordSet :
                           OccursIn(k, OrEmpty(item.title) \o <<" ">>
                                          \o OrEmpty(item.text))

\* A run that offered the story titled "xAB" for the keyword "Ab" and
\* dropped the story in which no keyword occurs.
C8_Witness ==
    \E r \in Jobs :
        /\ <<3, TRUE>> \in job[r].hnlog
        /\ <<6, FALSE>> \in job[r].hnlog
        /\ <<"A", "b">> \in ActiveKeywordSet

-----------------------------------------------------------------------------
(* retry_with_backoff: the wrapper around one call of the decorated f *)

MaxRetries == 3

BaseDelays == {2, 5}

\* What one invocation of f can raise, and what it can return.
Errors == {"Timeout", "HTTPError"}

Values == {"v1", "v2"}

RECURSIVE Pow2(_)
Pow2(n) == IF n <= 0 THEN 1 ELSE 2 * Pow2(n - 1)

BackoffDelayShifted(base_delay, attempt) == base_delay * Pow2(attempt + 1)

\* delay = base_delay * (2 ** attempt)
BackoffDelay(base_delay, attempt) == base_delay * Pow2(attempt)

SleepsAfterEveryFailure(attempt, max_retries) == attempt < max_retries

\* if attempt < max_retries - 1
SleepsBeforeRetry(attempt, max_retries) == attempt < max_retries - 1

\* The decorated function is called: last_exception = None, the loop begins.
RetryCall(m, d) ==
    /\ rpc = "idle"
    /\ rpc' = "loop"
    /\ rcfg' = [max_retries |-> m, base_delay |-> d]
    /\ rattempt' = 0
    /\ rlast' = "None"
    /\ UNCHANGED <<rout, rtrace>>
    /\ UNCHANGED notRetry

\* One pass of the loop body in which f returns v: return f(*args, **kwargs)
AttemptReturns(v) ==
    /\ rpc = "loop"
    /\ rattempt < rcfg.max_retries
    /\ rtrace' = Append(rtrace, [ev |-> "call", ok |-> TRUE, what |-> v])
    /\ rout' = v
    /\ rpc' = "returned"
    /\ UNCHANGED <<rcfg, rattempt, rlast>>
    /\ UNCHANGED notRetry

\* One pass of the loop body in which f raises e: the handler keeps e and
\* either goes to sleep or moves on to the next value of attempt.
AttemptRaises(e) ==
    /\ rpc = "loop"
    /\ rattempt < rcfg.max_retries
    /\ rtrace' = Append(rtrace, [ev |-> "call", ok |-> FALSE, what |-> e])
    /\ rlast' = e
    /\ IF SleepsBeforeRetry(rattempt, rcfg.max_retries)
       THEN rpc' = "sleep" /\ UNCHANGED rattempt
       ELSE rpc' = "loop" /\ rattempt' = rattempt + 1
    /\ UNCHANGED <<rcfg, rout>>
    /\ UNCHANGED notRetry

\* time.sleep(delay), then the next value of attempt.
Sleep ==
    /\ rpc = "sleep"
    /\ rtrace' = Append(rtrace,
                   [ev |-> "sleep", ok |-> TRUE,
                    what |-> BackoffDelay(rcfg.base_delay, rattempt)])
    /\ rattempt' = rattempt + 1
    /\ rpc' = "loop"
    /\ UNCHANGED <<rcfg, rlast, rout>>
    /\ UNCHANGED notRetry

\* The range is exhausted: raise last_exception. Raising None is a TypeError.
RaiseLast ==
    /\ rpc = "loop"
    /\ rattempt >= rcfg.max_retries
    /\ rout' = IF rlast = "None" THEN "TypeError" ELSE rlast
    /\ rpc' = "raised"
    /\ UNCHANGED <<rcfg, rattempt, rlast, rtrace>>
    /\ UNCHANGED notRetry

InitRetry == StoreIdle /\ RetryIdle /\ JobsIdle /\ PipelineIdle

NextRetry ==
    \/ \E m \in 0..MaxRetries, d \in BaseDelays : RetryCall(m, d)
    \/ \E v \in Values : AttemptReturns(v)
    \/ \E e \in Errors : AttemptRaises(e)
    \/ Sleep
    \/ RaiseLast

SpecRetry == InitRetry /\ [][NextRetry]_vars

-----------------------------------------------------------------------------
(* Claims about retry_with_backoff *)

Invocations == {i \in DOMAIN rtrace : rtrace[i].ev = "call"}

Failures == {i \in DOMAIN rtrace : rtrace[i].ev = "call" /\ ~rtrace[i].ok}

Sleeps == {i \in DOMAIN rtrace : rtrace[i].ev = "sleep"}

\* The trace of k failed attempts, a sleep of d * 2^(i-1) after the i-th of
\* the first n of them: call, sleep, call, sleep, ...
Alternates(k, n, d) ==
    /\ \A i \in 1..k : /\ 2 * i - 1 \in Failures
                        /\ i <= n => /\ 2 * i \in Sleeps
                                      /\ rtrace[2 * i].what = d * (2 ^ (i - 1))

\* C9: with max_retries = m >= 1 and base delay d, when f fails on its first
\* k attempts (0 <= k < m) and then succeeds, f has been invoked exactly k+1
\* times, the wrapper slept exactly k times, for d*2^0, ..., d*2^(k-1) in that
\* order, each sleep between a failed attempt and the next attempt, and the
\* wrapper returns the successful attempt's result and invokes f no more.
C9_RetryThenSuccess ==
    rpc = "returned" =>
        LET k == Cardinality(Failures)
            m == rcfg.max_retries
        IN  /\ m >= 1 /\ k < m
            /\ Cardinality(Invocations) = k + 1
            /\ Cardinality(Sleeps) = k
            /\ Len(rtrace) = 2 * k + 1
            /\ Alternates(k, k, rcfg.base_delay)
            /\ rtrace[2 * k + 1].ev = "call" /\ rtrace[2 * k + 1].ok
            /\ rout = rtrace[2 * k + 1].what
            /\ ~ENABLED NextRetry

\* f failed twice and succeeded on the third attempt.
C9_Witness ==
    /\ rpc = "returned"
    /\ Cardinality(Failures) = 2
    /\ rcfg.max_retries = 3

AllFailed(m) ==
    /\ Cardinality(Invocations) = m
    /\ Cardinality(Failures) = m
    /\ Cardinality(Sleeps) = m - 1
    /\ Len(rtrace) = 2 * m - 1
    /\ Alternates(m, m - 1, rcfg.base_delay)
    /\ rout = rtrace[Len(rtrace)].what
    /\ rout \in Errors

\* C10 as claimed: for any max_retries m, when f fails on every attempt the
\* wrapper invokes f m times, sleeps m-1 times and raises the last failure.
C10_ExhaustedAnyMax ==
    rpc = "raised" => AllFailed(rcfg.max_retries)

\* C10 amended: for max_retries m >= 1, when f fails on every attempt the
\* wrapper invokes f exactly m times, sleeps exactly m-1 times, never after
\* the final failed attempt, and raises the failure of the last attempt. The
\* wrapper raises only when every attempt failed.
C10_ExhaustedRaisesLast ==
    /\ (rpc = "raised" /\ rcfg.max_retries >= 1)
           => AllFailed(rcfg.max_retries)
    /\ (rpc # "idle" /\ rcfg.max_retries >= 1 /\ rattempt >= rcfg.max_retries)
           => Cardinality(Failures) = rcfg.max_retries

\* f failed on each of three attempts.
C10_Witness ==
    /\ rpc = "raised"
    /\ rcfg.max_retries = 3
    /\ Cardinality(Failures) = 3
    /\ rtrace[1].what # rtrace[5].what

-----------------------------------------------------------------------------
(* The heartbeats table under concurrent update_heartbeat calls, the health *)
(* job and the health tab                                                   *)

MaxBeats == 2

MaxTicks == 3

\* timedelta(hours=24); the clock counts hours.
Day == 24

\* scrapers / expected_scrapers of the health job and the health tab.
ExpectedScrapers ==
    {"reddit", "twitter", "hackernews", "tiktok", "instagram", "classifier"}

\* The names, error arguments and counts the callers pass.
Recorded == {"reddit", "classifier"}

ErrorArgs == {"error", ""}

Counts == {0, 2}

NameNeverConflicts(table, name) == FALSE

\* scraper_name TEXT UNIQUE: ON CONFLICT(scraper_name) fires when a row of
\* the name exists.
NameConflict(table, name) ==
    \E i \in DOMAIN table : table[i].scraper_name = name

\* The columns of the first row of a name, NoRow if there is none.
ColsOf(table, name) ==
    IF \E i \in DOMAIN table : table[i].scraper_name = name
    THEN table[CHOOSE i \in DOMAIN table :
                  /\ table[i].scraper_name = name
                  /\ \A k \in 1..(i - 1) : table[k].scraper_name # name].cols
    ELSE NoRow

\* update_heartbeat on the table: INSERT the row, or on a conflict DO UPDATE
\* SET the columns of the branch in the row of the name.
UpsertHeartbeat(table, name, success, error, posts_found, t) ==
    IF NameConflict(table, name)
    THEN [i \in DOMAIN table |->
            IF table[i].scraper_name = name
            THEN [table[i] EXCEPT !.cols =
                    IF success THEN HeartbeatSuccess(@, t, posts_found)
                    ELSE HeartbeatFailure(@, ErrorText(error))]
            ELSE table[i]]
    ELSE Append(table,
                [scraper_name |-> name,
                 cols |-> IF success
                          THEN HeartbeatSuccess(NoRow, t, posts_found)
                          ELSE HeartbeatFailure(NoRow, ErrorText(error))])

JobStatusInclusive(table, scraper, t) ==
    LET row == ColsOf(table, scraper)
    IN  IF ~row.exists THEN "Never run"
        ELSE IF row.last_success # NullTime
        THEN IF row.last_success >= t - Day THEN "OK" ELSE "STALE"
        ELSE "FAILED"

\* check_health, one scraper: fetchone() of the rows of the name, then the
\* branches on row and last_success.
JobStatus(table, scraper, t) ==
    LET row == ColsOf(table, scraper)
    IN  IF ~row.exists THEN "Never run"
        ELSE IF row.last_success # NullTime
        THEN IF row.last_success > t - Day THEN "OK" ELSE "STALE"
        ELSE "FAILED"

\* heartbeat_map = {h['scraper_name']: h for h in heartbeats}: the last row
\* of a name.
MapGet(table, scraper) ==
    IF \E i \in DOMAIN table : table[i].scraper_name = scraper
    THEN table[CHOOSE i \in DOMAIN table :
                  /\ table[i].scraper_name = scraper
                  /\ \A k \in (i + 1)..Len(table) :
                        table[k].scraper_name # scraper].cols
    ELSE NoRow

\* render_health_tab, first column: the mark of one scraper.
ViewIcon(table, scraper, t) ==
    LET h == MapGet(table, scraper)
    IN  IF h.exists /\ h.last_success # NullTime
        THEN IF h.last_success > t - Day THEN "green" ELSE "red"
        ELSE "white"

\* render_health_tab, third column.
ViewText(table, scraper) ==
    LET h == MapGet(table, scraper)
    IN  IF h.exists
        THEN IF h.last_success # NullTime THEN "Last success"
             ELSE IF h.last_error # Null THEN "Error"
             ELSE "Waiting for first run"
        ELSE "Waiting for first run"

InFlightBeats == {p \in Procs : beat[p] # NoBeat}

\* A caller enters update_heartbeat; datetime.now() is read for the row.
BeatCall(p, name, success, error, posts_found) ==
    /\ beat[p] = NoBeat
    /\ Len(beats) + Cardinality(InFlightBeats) < MaxBeats
    /\ beat' = [beat EXCEPT ![p] =
                  [name |-> name, success |-> success, error |-> error,
                   posts_found |-> posts_found, t |-> now]]
    /\ UNCHANGED <<heartbeats, beats, report, view, now>>
    /\ UNCHANGED notHeartbeat

\* cursor.execute(...); conn.commit()
BeatCommit(p) ==
    /\ beat[p] # NoBeat
    /\ LET b == beat[p]
           after == UpsertHeartbeat(heartbeats, b.name, b.success, b.error,
                                    b.posts_found, b.t)
       IN  /\ heartbeats' = after
           /\ beats' = Append(beats,
                         [name |-> b.name, success |-> b.success,
                          error |-> b.error, posts_found |-> b.posts_found,
                          t |-> b.t, pre |-> heartbeats, post |-> after])
    /\ beat' = [beat EXCEPT ![p] = NoBeat]
    /\ report' = NoReport
    /\ view' = NoView
    /\ UNCHANGED now
    /\ UNCHANGED notHeartbeat

\* Half a day passes.
Tick ==
    /\ now < MaxTicks * (Day \div 2)
    /\ now' = now + (Day \div 2)
    /\ report' = NoReport
    /\ view' = NoView
    /\ UNCHANGED <<heartbeats, beat, beats>>
    /\ UNCHANGED notHeartbeat

\* check_health
CheckHealth ==
    /\ ~report.done
    /\ LET st == [sc \in ExpectedScrapers |-> JobStatus(heartbeats, sc, now)]
       IN  report' = [done |-> TRUE, status |-> st,
                      healthy |-> Cardinality({sc \in ExpectedScrapers :
                                                  st[sc] = "OK"})]
    /\ UNCHANGED <<heartbeats, beat, beats, view, now>>
    /\ UNCHANGED notHeartbeat

\* render_health_tab
RenderHealth ==
    /\ ~view.done
    /\ view' = [done |-> TRUE,
                icon |-> [sc \in ExpectedScrapers |->
                            ViewIcon(heartbeats, sc, now)],
                text |-> [sc \in ExpectedScrapers |->
                            ViewText(heartbeats, sc)]]
    /\ UNCHANGED <<heartbeats, beat, beats, report, now>>
    /\ UNCHANGED notHeartbeat

InitHeartbeat == StoreIdle /\ RetryIdle /\ JobsIdle /\ PipelineIdle

NextHeartbeat ==
    \/ \E p \in Procs, n \in Recorded, c \in Counts :
          BeatCall(p, n, TRUE, "", c)
    \/ \E p \in Procs, n \in Recorded, e \in ErrorArgs :
          BeatCall(p, n, FALSE, e, 0)
    \/ \E p \in Procs : BeatCommit(p)
    \/ Tick
    \/ CheckHealth
    \/ RenderHealth

SpecHeartbeat == InitHeartbeat /\ [][NextHeartbeat]_vars

-----------------------------------------------------------------------------
(* Claims about the heartbeats table and the health signal *)

\* The columns of the rows a table holds for a name.
RowsNamed(table, name) ==
    {table[i].cols : i \in {k \in DOMAIN table : table[k].scraper_name = name}}

\* How many rows a table holds for a name.
RowCount(table, name) ==
    Cardinality({k \in DOMAIN table : table[k].scraper_name = name})

\* C11: a success record sets last_success to the time of the call, clears
\* last_error and sets posts_found to the count; a failure record sets
\* last_error and leaves last_success and posts_found as they were (no
\* last_success and the default count in a row it creates); the rows of
\* every other name are as they were.
C11_HeartbeatFrame ==
    \A k \in DOMAIN beats :
        LET c == beats[k]
            before == RowsNamed(c.pre, c.name)
            after == RowsNamed(c.post, c.name)
        IN  /\ c.t <= now
            /\ c.success =>
                  after = {[exists |-> TRUE, last_success |-> c.t,
                            last_error |-> Null,
                            posts_found |-> c.posts_found]}
            /\ ~c.success =>
                  /\ \A r \in after : r.last_error \notin {Null, ""}
                  /\ before = {} =>
                        \A r \in after : /\ r.last_success = NullTime
                                         /\ r.posts_found = 0
                  /\ before # {} =>
                        /\ {r.last_success : r \in after}
                              = {r.last_success : r \in before}
                        /\ {r.posts_found : r \in after}
                              = {r.posts_found : r \in before}
                  /\ after # {}
            /\ \A n \in ExpectedScrapers \ {c.name} :
                  /\ RowsNamed(c.post, n) = RowsNamed(c.pre, n)
                  /\ RowCount(c.post, n) = RowCount(c.pre, n)

\* A failure was recorded for a name whose row held a success with a count,
\* at a later time than that success.
C11_Witness ==
    \E k \in DOMAIN beats :
        /\ ~beats[k].success
        /\ \E r \in RowsNamed(beats[k].pre, beats[k].name) :
              /\ r.last_success # NullTime
              /\ r.last_success < now
              /\ r.posts_found = 2

\* The last committed call of a name.
LastBeat(n) ==
    beats[CHOOSE k \in DOMAIN beats :
             /\ beats[k].name = n
             /\ \A m \in (k + 1)..Len(beats) : beats[m].name # n]

\* C12: the table holds exactly one row for every name recorded so far and
\* none for another name, no call removed a row, and the row of a name shows
\* the outcome of the last call committed for it.
C12_OneRowPerName ==
    /\ \A n \in ExpectedScrapers :
          IF \E k \in DOMAIN beats : beats[k].name = n
          THEN /\ RowCount(heartbeats, n) = 1
               /\ \A r \in RowsNamed(heartbeats, n) :
                     IF LastBeat(n).success
                     THEN /\ r.last_success = LastBeat(n).t
                          /\ r.last_error = Null
                          /\ r.posts_found = LastBeat(n).posts_found
                     ELSE r.last_error \notin {Null, ""}
          ELSE RowCount(heartbeats, n) = 0
    /\ \A i \in DOMAIN heartbeats : heartbeats[i].scraper_name \in ExpectedScrapers
    /\ \A k \in DOMAIN beats :
          /\ Len(beats[k].post) >= Len(beats[k].pre)
          /\ \A n \in ExpectedScrapers :
                RowCount(beats[k].post, n) >= RowCount(beats[k].pre, n)

\* Two calls for one name with differing outcomes were committed.
C12_Witness ==
    /\ Len(beats) = 2
    /\ beats[1].name = beats[2].name
    /\ beats[1].success # beats[2].success
    /\ Len(heartbeats) = 1

\* The health signal of the heartbeat row of a name, in three outcomes.
HealthSignal(n) ==
    IF RowCount(heartbeats, n) = 0 THEN "never run"
    ELSE IF \E r \in RowsNamed(heartbeats, n) :
               r.last_success # NullTime /\ now - r.last_success < Day
    THEN "healthy"
    ELSE "stale"

\* The row of a name has recorded no success.
OnlyFailures(n) ==
    /\ RowCount(heartbeats, n) > 0
    /\ \A r \in RowsNamed(heartbeats, n) : r.last_success = NullTime

\* C13 (as stated): the health job and the health tab each give a scraper
\* one of three outcomes: healthy iff last_success lies within the last 24
\* hours, never run iff it has no row, stale otherwise.
C13_ThreeOutcomes ==
    \A n \in ExpectedScrapers :
        /\ report.done =>
              report.status[n] =
                 CASE HealthSignal(n) = "healthy" -> "OK"
                   [] HealthSignal(n) = "never run" -> "Never run"
                   [] OTHER -> "STALE"
        /\ view.done =>
              view.icon[n] =
                 CASE HealthSignal(n) = "healthy" -> "green"
                   [] HealthSignal(n) = "never run" -> "white"
                   [] OTHER -> "red"

\* C13 (amended): healthy, never run and stale as stated, but for a row that
\* has recorded no success: the health job reports it as failed, a fourth
\* outcome, and the health tab gives it the mark of a scraper that never
\* ran, with the error as its text. On every other row the two agree, and
\* the job's return value counts the healthy scrapers.
C13_FourOutcomes ==
    /\ \A n \in ExpectedScrapers :
          /\ report.done =>
                report.status[n] =
                   CASE OnlyFailures(n) -> "FAILED"
                     [] HealthSignal(n) = "healthy" -> "OK"
                     [] HealthSignal(n) = "never run" -> "Never run"
                     [] OTHER -> "STALE"
          /\ view.done =>
                /\ view.icon[n] =
                      CASE OnlyFailures(n) -> "white"
                        [] HealthSignal(n) = "healthy" -> "green"
                        [] HealthSignal(n) = "never run" -> "white"
                        [] OTHER -> "red"
                /\ view.text[n] = "Error" <=> OnlyFailures(n)
          /\ (report.done /\ view.done) =>
                /\ report.status[n] = "OK" <=> view.icon[n] = "green"
                /\ report.status[n] = "STALE" <=> view.icon[n] = "red"
    /\ report.done =>
          report.healthy =
             Cardinality({n \in ExpectedScrapers : HealthSignal(n) = "healthy"})

\* The job and the tab have both looked at a table with a row that has only
\* recorded failures and a row whose success is exactly a day old.
C13_Witness ==
    /\ report.done
    /\ view.done
    /\ \E n \in ExpectedScrapers : OnlyFailures(n)
    /\ \E n \in ExpectedScrapers :
          \E r \in RowsNamed(heartbeats, n) : r.last_success = now - Day

-----------------------------------------------------------------------------
(* The relevance classifier: classify_post, save_analysis, classify_posts *)

MaxPosts == 2

MaxBatch == 2

MaxRuns == 2

MaxSends == MaxPosts + MaxRuns - 1

\* businesses.slug of each business, and a slug of no business.
Slug(b) == IF b = 1 THEN "s1" ELSE "s2"

UnknownSlug == "zz"

\* NULL in an integer column of analysis.
NullScore == -1

\* What json.loads can give: an object (keys: the fields present), or a
\* value that is no object; None where classify_post returns None.
NoneValue == [type |-> "none"]

ListValue == [type |-> "list"]

VerdictKeys == {"relevant_to", "relevance_score", "post_type", "pain_score",
                "urgency", "reasoning"}

Object(keys, relevant_to) ==
    [type |-> "object", keys |-> keys, relevant_to |-> relevant_to,
     relevance_score |-> 8, pain_score |-> 5, urgency |-> "high"]

\* Responses of the model API to one request.
Responses ==
    {[kind |-> k] : k \in {"timeout", "status", "nonjson"}}
    \cup {[kind |-> "json", value |-> ListValue]}
    \cup {[kind |-> "json", value |-> Object(VerdictKeys, r)] :
             r \in {<<>>, <<"s1">>, <<"s1", "s2">>, <<"s1", "s1">>,
                    <<UnknownSlug>>}}
    \cup {[kind |-> "json",
           value |-> Object(VerdictKeys \ {"relevant_to"}, <<>>)]}
    \cup {[kind |-> "json", value |-> Object({"reasoning"}, <<>>)]}
    \cup {[kind |-> "json", value |-> Object({"relevant_to"}, <<"s1">>)]}
    \cup {[kind |-> "json", value |-> Object({}, <<>>)]}

\* classify_post: None on a status other than 200, a timeout, a
\* JSONDecodeError or any exception; else json.loads of the content.
ClassifyPost(resp) ==
    IF resp.kind \in {"timeout", "status", "nonjson"} THEN NoneValue
    ELSE resp.value

\* if not classification: None and the empty object are false.
Truthy(c) ==
    /\ c # NoneValue
    /\ c.type = "object" => c.keys # {}

\* classification.get(key) for the integer fields, and for urgency.
GetScore(c, key) == IF key \in c.keys THEN c[key] ELSE NullScore

GetText(c, key) == IF key \in c.keys THEN c[key] ELSE Null

\* classification.get('relevant_to', [])
RelevantSlugs(c) == IF "relevant_to" \in c.keys THEN c.relevant_to ELSE <<>>

\* get_active_businesses: the ids of the active businesses, in table order.
GetActiveBusinesses ==
    SelectSeq(<<1, 2>>, LAMBDA b : b \in bizRows /\ bizActive[b])

\* business_map.get(slug): the id, 0 for None.
BusinessMapGet(businesses, slug) ==
    IF \E k \in DOMAIN businesses : Slug(businesses[k]) = slug
    THEN CHOOSE b \in BusinessIds :
            /\ Slug(b) = slug
            /\ \E k \in DOMAIN businesses : businesses[k] = b
    ELSE 0

DefaultBusinessIsLast(businesses) == businesses[Len(businesses)]

\* businesses[0]['id']
DefaultBusiness(businesses) == businesses[1]

\* save_analysis: INSERT INTO analysis (...) VALUES (..., 'new', ...)
SaveAnalysis(table, post_id, business_id, c) ==
    Append(table,
           [id |-> Len(table) + 1, post_id |-> post_id,
            business_id |-> business_id,
            relevance_score |-> GetScore(c, "relevance_score"),
            pain_score |-> GetScore(c, "pain_score"),
            urgency |-> GetText(c, "urgency"),
            status |-> "new"])

\* for slug in relevant_slugs: business_id = business_map.get(slug);
\* if business_id: save_analysis(...)
RECURSIVE SaveEach(_, _, _, _, _)
SaveEach(table, post_id, businesses, slugs, c) ==
    IF slugs = <<>> THEN table
    ELSE LET business_id == BusinessMapGet(businesses, Head(slugs))
         IN  SaveEach(IF business_id # 0
                      THEN SaveAnalysis(table, post_id, business_id, c)
                      ELSE table,
                      post_id, businesses, Tail(slugs), c)

\* The rows classify_posts stores for one classification.
SaveVerdict(table, post_id, businesses, c) ==
    IF RelevantSlugs(c) = <<>>
    THEN SaveAnalysis(table, post_id, DefaultBusiness(businesses), c)
    ELSE SaveEach(table, post_id, businesses, RelevantSlugs(c), c)

\* WHERE NOT EXISTS (SELECT 1 FROM analysis a WHERE a.post_id = p.id)
Unanalyzed(table) ==
    {posts[k].id : k \in DOMAIN posts}
        \ {table[k].post_id : k \in DOMAIN table}

RECURSIVE Newest(_, _)
Newest(ids, limit) ==
    IF ids = {} \/ limit = 0 THEN <<>>
    ELSE LET top == CHOOSE a \in ids : \A b \in ids : b <= a
         IN  <<top>> \o Newest(ids \ {top}, limit - 1)

\* get_unanalyzed_posts: ORDER BY p.scraped_at DESC LIMIT ? (posts are
\* scraped in the order of their ids).
GetUnanalyzedPosts(limit) == Newest(Unanalyzed(analysis), limit)

\* A posts table of k rows.
RECURSIVE PostsTable(_)
PostsTable(k) ==
    IF k = 0 THEN <<>>
    ELSE Append(PostsTable(k - 1),
                NewRow(PostsTable(k - 1), "reddit", <<"reddit", k>>, "b1"))

\* A verdict carrying the fields the prompt asks for; the list of relevant
\* businesses can be absent.
WellFormed(c) ==
    /\ c.type = "object"
    /\ (VerdictKeys \ {"relevant_to"}) \subseteq c.keys

\* The posts the finished runs sent to the model.
RECURSIVE SentBy(_)
SentBy(rs) ==
    IF rs = <<>> THEN 0 ELSE Len(Head(rs).batch) + SentBy(Tail(rs))

\* classify_posts up to the loop: the API key, the businesses, the batch.
\* The cron runs are cut off after MaxRuns runs or MaxSends posts.
ClassifyStart(n, key) ==
    /\ cls.pc = "idle"
    /\ Len(runs) < MaxRuns
    /\ SentBy(runs) + Len(GetUnanalyzedPosts(n)) <= MaxSends
    /\ LET businesses == GetActiveBusinesses
           batch == GetUnanalyzedPosts(n)
           run == [NoRun EXCEPT !.n = n]
       IN  cls' =
             IF ~key THEN [run EXCEPT !.pc = "ret"]
             ELSE IF businesses = <<>>
             THEN [run EXCEPT !.pc = "ret"]
             ELSE IF batch = <<>>
             THEN [run EXCEPT !.pc = "ret", !.businesses = businesses]
             ELSE [run EXCEPT !.pc = "loop", !.businesses = businesses,
                              !.batch = batch, !.i = 1,
                              !.fresh = \A k \in DOMAIN batch :
                                           \A r \in DOMAIN analysis :
                                              analysis[r].post_id # batch[k]]
    /\ UNCHANGED <<posts, registryVars, analysis, runs>>
    /\ UNCHANGED notClassifier

\* One turn of the loop: classify_post, then the rows of the verdict.
ClassifyOne(resp) ==
    /\ cls.pc = "loop"
    /\ cls.i <= Len(cls.batch)
    /\ LET post == cls.batch[cls.i]
           c == ClassifyPost(resp)
           seen == [cls EXCEPT !.sent = @ + 1,
                               !.last = [post |-> post, resp |-> resp,
                                         before |-> analysis,
                                         count |-> cls.count],
                               !.complete = IF WellFormed(c) THEN @ + 1 ELSE @,
                               !.skipped = IF WellFormed(c) THEN @
                                           ELSE @ \cup {post}]
       IN  IF ~Truthy(c)
           THEN /\ cls' = [seen EXCEPT !.i = @ + 1]
                /\ UNCHANGED analysis
           ELSE IF c.type # "object"
           THEN /\ cls' = [seen EXCEPT !.pc = "done", !.raised = TRUE]
                /\ UNCHANGED analysis
           ELSE /\ analysis' = SaveVerdict(analysis, post, cls.businesses, c)
                /\ cls' = [seen EXCEPT !.i = @ + 1, !.count = @ + 1]
    /\ UNCHANGED <<posts, registryVars, runs>>
    /\ UNCHANGED notClassifier

\* return classified_count (0 before the loop).
ClassifyReturn ==
    /\ \/ cls.pc = "ret"
       \/ cls.pc = "loop" /\ cls.i > Len(cls.batch)
    /\ cls' = [cls EXCEPT !.pc = "done", !.ret = cls.count]
    /\ UNCHANGED <<posts, registryVars, analysis, runs>>
    /\ UNCHANGED notClassifier

\* The run is over; the next cron run can start.
ClassifyExit ==
    /\ cls.pc = "done"
    /\ runs' = Append(runs, [n |-> cls.n, batch |-> cls.batch,
                             skipped |-> cls.skipped, ret |-> cls.ret,
                             raised |-> cls.raised, after |-> analysis])
    /\ cls' = NoRun
    /\ UNCHANGED <<posts, registryVars, analysis>>
    /\ UNCHANGED notClassifier

InitClassifier ==
    /\ \E k \in 0..MaxPosts : posts = PostsTable(k)
    /\ ipc = [p \in Procs |-> "idle"]
    /\ iarg = [p \in Procs |-> NoArg]
    /\ calls = <<>>
    /\ tick = 0
    /\ RetryIdle
    /\ bizActive \in [BusinessIds -> BOOLEAN]
    /\ kwActive = [i \in DOMAIN KeywordRows |-> TRUE]
    /\ hb = [a \in Adapters |-> NoRow]
    /\ now = 0
    /\ job = [r \in Jobs |-> NoJob]
    /\ PipelineIdle

NextClassifier ==
    \/ \E n \in 1..MaxBatch, key \in BOOLEAN : ClassifyStart(n, key)
    \/ \E resp \in Responses : ClassifyOne(resp)
    \/ ClassifyReturn
    \/ ClassifyExit

SpecClassifier == InitClassifier /\ [][NextClassifier]_vars

-----------------------------------------------------------------------------
(* Claims about the relevance classifier *)

\* The latest classify_post call of the run under way, what it returned and
\* the rows stored since.
Called == cls.last # NoLast

LastVerdict == ClassifyPost(cls.last.resp)

NewRows ==
    {analysis[k] : k \in (Len(cls.last.before) + 1)..Len(analysis)}

\* The verdict's values are those of the row.
Carries(row, c) ==
    /\ row.post_id = cls.last.post
    /\ row.status = "new"
    /\ row.relevance_score = c.relevance_score
    /\ row.pain_score = c.pain_score
    /\ row.urgency = c.urgency

\* The businesses of the active roster that a list of slugs names.
Named(slugs) ==
    {b \in BusinessIds :
        bizActive[b] /\ \E k \in DOMAIN slugs : slugs[k] = Slug(b)}

\* C14: a well-formed verdict that names business slugs leaves exactly one
\* new analysis row for each business named, also for a slug listed twice,
\* each row linking the post to the business with status 'new' and the
\* verdict's relevance, pain and urgency.
C14_OneRowPerNamedBusiness ==
    (Called /\ WellFormed(LastVerdict) /\ RelevantSlugs(LastVerdict) # <<>>) =>
        /\ \A b \in BusinessIds :
              Cardinality({r \in NewRows : r.business_id = b})
                 = IF b \in Named(RelevantSlugs(LastVerdict)) THEN 1 ELSE 0
        /\ Len(analysis) - Len(cls.last.before)
              = Cardinality(Named(RelevantSlugs(LastVerdict)))
        /\ \A r \in NewRows : Carries(r, LastVerdict)

\* C15: a well-formed verdict that names no business (the list absent or
\* empty) leaves exactly one new analysis row, for the first business of the
\* active roster, and the post is counted as classified.
C15_DefaultBusiness ==
    (Called /\ WellFormed(LastVerdict) /\ RelevantSlugs(LastVerdict) = <<>>) =>
        /\ Len(analysis) = Len(cls.last.before) + 1
        /\ \A r \in NewRows :
              /\ bizActive[r.business_id]
              /\ \A b \in BusinessIds : bizActive[b] => r.business_id <= b
              /\ Carries(r, LastVerdict)
        /\ cls.count = cls.last.count + 1

\* A verdict without the list of relevant businesses was stored while the
\* first business of the table is inactive.
C15_Witness ==
    /\ Called
    /\ WellFormed(LastVerdict)
    /\ "relevant_to" \notin LastVerdict.keys
    /\ ~bizActive[1]
    /\ \E r \in NewRows : r.business_id = 2

\* C16: a post whose response is malformed (no JSON, a timeout, a status
\* other than success, a JSON object missing verdict fields) gets no analysis
\* row, has no analysis row after the batch and is in the
\* batch of the next run that selects every unanalyzed post.
C16_MalformedIsSkipped ==
    /\ (Called /\ ~WellFormed(LastVerdict)) =>
          analysis = cls.last.before
    /\ \A k \in DOMAIN runs : \A p \in runs[k].skipped :
          /\ \A r \in DOMAIN runs[k].after : runs[k].after[r].post_id # p
          /\ (k = Len(runs) /\ cls.pc = "loop" /\ cls.n >= Len(posts)) =>
                \E m \in DOMAIN cls.batch : cls.batch[m] = p

\* C17: a run with batch_size n calls the classifier for at most n posts,
\* none of which had an analysis row when the batch was selected, and
\* returns the number of them that received a well-formed verdict, at most n.
C17_BatchCount ==
    /\ cls.sent <= cls.n
    /\ cls.fresh
    /\ (cls.pc = "done" /\ ~cls.raised) =>
          /\ cls.ret = cls.complete
          /\ cls.ret <= cls.n

-----------------------------------------------------------------------------
(* The keyword consensus engine: query_model and suggest_keywords *)

\* Most entries the models' keyword lists of one call hold together.
MaxProposals == 2

\* An element of a model's "keywords" list: a dict with some of the keys
\* keyword and category, or a value that is no dict.
Entry(keys, keyword, category) ==
    [shape |-> "dict", keys |-> keys, keyword |-> keyword,
     category |-> category]

StringEntry == [shape |-> "str", keys |-> {}, keyword |-> <<>>,
                category |-> "none"]

Proposals ==
    { Entry({"keyword", "category"}, <<"a">>, "direct"),
      Entry({"keyword", "category"}, <<"A">>, "question"),
      Entry({"keyword", "category"}, <<" ", "a", " ">>, "question"),
      Entry({"keyword"}, <<"b">>, "none"),
      Entry({"keyword", "category"}, <<" ">>, "direct"),
      StringEntry }

KeywordLists(n) == UNION {[1..k -> Proposals] : k \in 0..n}

\* Responses of the API to the query of one model.
SuggestResponses(n) ==
    {[kind |-> k, keys |-> {}, keywords |-> <<>>] :
        k \in {"timeout", "status", "nonjson", "list"}}
    \cup {[kind |-> "object", keys |-> {}, keywords |-> <<>>]}
    \cup {[kind |-> "object", keys |-> {"keywords"}, keywords |-> l] :
             l \in KeywordLists(n)}

AllResponses == SuggestResponses(MaxProposals)

\* query_model: result['error'] for a status other than 200, a
\* JSONDecodeError, a timeout or any other exception (parsed.get on a value
\* that is no object); else result['keywords'] = parsed.get('keywords', []).
QueryModel(resp) ==
    [st |-> "done", resp |-> resp,
     error |-> CASE resp.kind = "status" -> "API error"
                 [] resp.kind = "nonjson" -> "JSON parse error"
                 [] resp.kind = "timeout" -> "Request timed out"
                 [] resp.kind = "list" -> "Error"
                 [] OTHER -> Null,
     keywords |-> IF resp.kind = "object" /\ "keywords" \in resp.keys
                  THEN resp.keywords ELSE <<>>]

\* kw.get('keyword', '') and kw.get('category', 'direct')
KwGet(kw) == IF "keyword" \in kw.keys THEN kw.keyword ELSE <<>>

CatGet(kw) == IF "category" \in kw.keys THEN kw.category ELSE "direct"

\* The loop over result['keywords'] of one model: strip, skip the empty
\* keyword, a new entry for a keyword not in keyword_map, add the model.
RECURSIVE AddKeywords(_, _, _)
AddKeywords(map, model, kws) ==
    IF kws = <<>> THEN map
    ELSE LET keyword == Strip(KwGet(Head(kws)))
             category == CatGet(Head(kws))
             withKey ==
                 IF \E k \in DOMAIN map : map[k].keyword = keyword THEN map
                 ELSE Append(map, [keyword |-> keyword,
                                   category |-> category, models |-> {}])
             added ==
                 [k \in DOMAIN withKey |->
                     IF withKey[k].keyword = keyword
                     THEN [withKey[k] EXCEPT !.models = @ \cup {model}]
                     ELSE withKey[k]]
         IN  AddKeywords(IF keyword = <<>> THEN map ELSE added,
                         model, Tail(kws))

\* The loop over results: a result with an error is passed over.
RECURSIVE KeywordMap(_, _, _)
KeywordMap(results, k, map) ==
    IF k > Len(results) THEN map
    ELSE KeywordMap(results, k + 1,
                    IF results[k].error # Null THEN map
                    ELSE AddKeywords(map, ModelNames[k], results[k].keywords))

\* kw.get on an element that is no dict raises AttributeError in
\* suggest_keywords.
MergeRaises(results) ==
    \E k \in DOMAIN results :
        /\ results[k].error = Null
        /\ \E e \in DOMAIN results[k].keywords :
              results[k].keywords[e].shape # "dict"

\* Order of the model names as strings, and in the MODELS dict.
AlphaRank(model) ==
    CASE model = "claude-opus-4.5" -> 1
      [] model = "gemini-3-pro" -> 2
      [] OTHER -> 3

QueryRank(model) ==
    CASE model = "gpt-5.2" -> 1
      [] model = "claude-opus-4.5" -> 2
      [] OTHER -> 3

RECURSIVE ModelsInQueryOrder(_)
ModelsInQueryOrder(models) ==
    IF models = {} THEN <<>>
    ELSE LET first == CHOOSE a \in models :
                         \A b \in models : QueryRank(a) <= QueryRank(b)
         IN  <<first>> \o ModelsInQueryOrder(models \ {first})

\* sorted(list(kw_data['models']))
RECURSIVE SortedModels(_)
SortedModels(models) ==
    IF models = {} THEN <<>>
    ELSE LET first == CHOOSE a \in models :
                         \A b \in models : AlphaRank(a) <= AlphaRank(b)
         IN  <<first>> \o SortedModels(models \ {first})

\* The entries of the returned list, in the order of keyword_map.
Combined(map) ==
    [k \in DOMAIN map |->
        [keyword |-> map[k].keyword, category |-> map[k].category,
         models |-> SortedModels(map[k].models),
         model_count |-> Cardinality(map[k].models)]]

\* ord() of a character, and < on strings.
CharRank(ch) ==
    CASE ch = " " -> 32 [] ch = "A" -> 65 [] ch = "B" -> 66
      [] ch = "a" -> 97 [] ch = "b" -> 98 [] OTHER -> 120

RECURSIVE LexLess(_, _)
LexLess(a, b) ==
    IF b = <<>> THEN FALSE
    ELSE IF a = <<>> THEN TRUE
    ELSE IF Head(a) # Head(b) THEN CharRank(Head(a)) < CharRank(Head(b))
    ELSE LexLess(Tail(a), Tail(b))

\* key=lambda x: (-x['model_count'], x['keyword'].lower())
KeyLess(x, y) ==
    \/ x.model_count > y.model_count
    \/ /\ x.model_count = y.model_count
       /\ LexLess(Lower(x.keyword), Lower(y.keyword))

\* list.sort: stable.
RECURSIVE InsertSorted(_, _)
InsertSorted(list, x) ==
    IF list = <<>> THEN <<x>>
    ELSE IF KeyLess(x, Head(list)) THEN <<x>> \o list
    ELSE <<Head(list)>> \o InsertSorted(Tail(list), x)

RECURSIVE SortCombined(_, _)
SortCombined(list, sorted) ==
    IF list = <<>> THEN sorted
    ELSE SortCombined(Tail(list), InsertSorted(sorted, Head(list)))

\* What suggest_keywords returns for the results of gather.
SuggestOutput(results) ==
    SortCombined(Combined(KeywordMap(results, 1, <<>>)), <<>>)

RECURSIVE TotalProposals(_)
TotalProposals(ks) ==
    IF ks = {} THEN 0
    ELSE LET k == CHOOSE x \in ks : TRUE
         IN  Len(task[k].keywords) + TotalProposals(ks \ {k})

\* suggest_keywords: the API key, then the tasks of all models are created
\* and gathered.
SuggestStart(key) ==
    /\ sug.pc = "idle"
    /\ IF key
       THEN /\ sug' = [sug EXCEPT !.pc = "gather"]
            /\ task' = [k \in DOMAIN task |-> [NoTask EXCEPT !.st = "running"]]
       ELSE /\ sug' = [sug EXCEPT !.pc = "raised"]
            /\ UNCHANGED task
    /\ UNCHANGED notSuggester

\* The query of one model ends, with a response or with its timeout.
QueryDone(k, resp) ==
    /\ task[k].st = "running"
    /\ TotalProposals(DOMAIN task) + Len(resp.keywords) <= MaxProposals
    /\ task' = [task EXCEPT ![k] = QueryModel(resp)]
    /\ UNCHANGED sug
    /\ UNCHANGED notSuggester

\* gather has every result: the merge, the sort, the return.
SuggestReturn ==
    /\ sug.pc = "gather"
    /\ \A k \in DOMAIN task : task[k].st = "done"
    /\ sug' = IF MergeRaises(task) THEN [sug EXCEPT !.pc = "raised"]
              ELSE [pc |-> "done", out |-> SuggestOutput(task)]
    /\ UNCHANGED task
    /\ UNCHANGED notSuggester

InitSuggester == StoreIdle /\ RetryIdle /\ JobsIdle /\ PipelineIdle

NextSuggester ==
    \/ \E key \in BOOLEAN : SuggestStart(key)
    \/ \E k \in DOMAIN ModelNames, resp \in AllResponses : QueryDone(k, resp)
    \/ SuggestReturn

SpecSuggester == InitSuggester /\ [][NextSuggester]_vars

-----------------------------------------------------------------------------
(* Claims about the keyword consensus engine *)

\* A text without its surrounding spaces, and with its letters in lower case.
Trimmed(str) ==
    LET inked == {k \in DOMAIN str : str[k] # " "}
    IN  IF inked = {} THEN <<>>
        ELSE SubSeq(str, CHOOSE a \in inked : \A b \in inked : a <= b,
                         CHOOSE a \in inked : \A b \in inked : b <= a)

Folded(str) ==
    [k \in DOMAIN str |->
        CASE str[k] = "A" -> "a" [] str[k] = "B" -> "b" [] OTHER -> str[k]]

\* The models whose query gave a well-formed response: a JSON object whose
\* keywords, if any, are all dicts.
Succeeded ==
    {k \in DOMAIN task :
        /\ task[k].st = "done"
        /\ task[k].resp.kind = "object"
        /\ \A e \in DOMAIN task[k].resp.keywords :
              task[k].resp.keywords[e].shape = "dict"}

\* The keyword texts model k proposed, trimmed, the empty text left out.
ProposedBy(k) ==
    {Trimmed(task[k].resp.keywords[e].keyword) :
        e \in {x \in DOMAIN task[k].resp.keywords :
                  "keyword" \in task[k].resp.keywords[x].keys}} \ {<<>>}

Entries == {sug.out[k] : k \in DOMAIN sug.out}

Queried == \A k \in DOMAIN task : task[k].st # "idle"

\* C18: once the queries are issued the call does not fail, whatever subset
\* of the models times out, answers with a status other than success or
\* answers malformed: it returns the merge of the keywords of the models
\* that succeeded, the empty list if none did; no query is cancelled.
C18_FailuresAreIsolated ==
    /\ sug.pc = "raised" => ~Queried
    /\ sug.pc = "gather" => \A k \in DOMAIN task : task[k].st \in {"running", "done"}
    /\ sug.pc = "done" =>
          /\ {e.keyword : e \in Entries}
                = UNION {ProposedBy(k) : k \in Succeeded}
          /\ \A e \in Entries :
                {e.models[m] : m \in DOMAIN e.models}
                   = {ModelNames[k] : k \in {x \in Succeeded :
                                                e.keyword \in ProposedBy(x)}}
          /\ Succeeded = {} => sug.out = <<>>

\* C19: in every returned entry the agreement count is the number of
\* successful models that proposed the keyword and the length of the model
\* list, which is sorted and free of repeats; the count is at most the number
\* of models that succeeded.
C19_AgreementCount ==
    sug.pc = "done" =>
        \A e \in Entries :
            /\ e.model_count
                  = Cardinality({k \in Succeeded : e.keyword \in ProposedBy(k)})
            /\ e.model_count = Len(e.models)
            /\ \A a, b \in DOMAIN e.models :
                  a < b => AlphaRank(e.models[a]) < AlphaRank(e.models[b])
            /\ e.model_count <= Cardinality(Succeeded)
            /\ (\E k \in DOMAIN task : task[k].resp.kind = "timeout") =>
                  e.model_count <= Len(ModelNames) - 1

\* One model timed out and the two others proposed one keyword, the one
\* with spaces around it: an entry with both of them, in sorted order.
C19_Witness ==
    /\ sug.pc = "done"
    /\ task[3].resp.kind = "timeout"
    /\ \E e \in Entries :
          /\ e.model_count = 2
          /\ e.models = <<"claude-opus-4.5", "gpt-5.2">>
    /\ \E k \in Succeeded :
          \E x \in DOMAIN task[k].resp.keywords :
             task[k].resp.keywords[x].keyword = <<" ", "a", " ">>

\* C20: no two returned entries have the same text after trimming and
\* folding letter case, no entry has the empty text, and an entry holds the
\* first-seen spelling, the category of the first model that proposed the
\* text and every model that proposed it.
C20_DedupOnNormalizedText ==
    sug.pc = "done" =>
        /\ \A a, b \in DOMAIN sug.out :
              a # b => Folded(sug.out[a].keyword) # Folded(sug.out[b].keyword)
        /\ \A e \in Entries :
              /\ e.keyword # <<>>
              /\ e.keyword = Trimmed(e.keyword)
              /\ {e.models[m] : m \in DOMAIN e.models}
                    = {ModelNames[k] :
                          k \in {x \in Succeeded :
                                    \E t \in ProposedBy(x) :
                                       Folded(t) = Folded(e.keyword)}}

\* Alphabetical order of two lower-cased texts: a strict order in which a
\* text comes after its proper prefixes.
FoldedAlphabet == <<" ", "a", "b">>

Place(ch) == CHOOSE k \in DOMAIN FoldedAlphabet : FoldedAlphabet[k] = ch

RECURSIVE TextBefore(_, _)
TextBefore(a, b) ==
    IF b = <<>> THEN FALSE
    ELSE IF a = <<>> THEN TRUE
    ELSE IF Head(a) # Head(b) THEN Place(Head(a)) < Place(Head(b))
    ELSE TextBefore(Tail(a), Tail(b))

RankedBefore(x, y) ==
    \/ x.model_count > y.model_count
    \/ /\ x.model_count = y.model_count
       /\ TextBefore(Folded(x.keyword), Folded(y.keyword))

\* C21: the returned list is in descending order of agreement count and,
\* within one count, in ascending order of the lower-cased text, and the
\* pair (count, lower-cased text) fixes the position of every entry: of two
\* entries the earlier one is strictly before the later one in that order.
C21_TotalOrder ==
    sug.pc = "done" =>
        \A a, b \in DOMAIN sug.out :
            a < b => RankedBefore(sug.out[a], sug.out[b])

-----------------------------------------------------------------------------
(* The cron entry points: jobs/scrape_<adapter>.py and jobs/classify_posts.py *)

MaxMains == 2

\* The name each wrapper passes to update_heartbeat.
EntryNames ==
    {"reddit", "twitter", "hackernews", "tiktok", "instagram", "classifier"}

ExitStatusOfOutcome(m) == IF m.raised THEN 1 ELSE 0

\* sys.exit(0) after the try statement.
ExitStatus(m) == 0

\* The arguments of the wrapper's update_heartbeat call: success=True with
\* posts_found in the try block, success=False with str(e) in the handler.
HeartbeatArgs(m) ==
    IF m.raised
    THEN [name |-> m.name, success |-> FALSE, error |-> m.err,
          posts_found |-> 0]
    ELSE [name |-> m.name, success |-> TRUE, error |-> Null,
          posts_found |-> m.ret]

\* The wrapper of one name is started by the scheduler.
MainStart(name) ==
    /\ main.pc = "idle"
    /\ Len(exits) < MaxMains
    /\ main' = [NoMain EXCEPT !.pc = "try", !.name = name]
    /\ UNCHANGED <<exits, heartbeats, now>>
    /\ UNCHANGED notEntry

\* posts_found = scrape_<adapter>() or classify_posts(batch_size=10)
WorkReturns(n) ==
    /\ main.pc = "try"
    /\ main' = [main EXCEPT !.pc = "beat", !.ret = n]
    /\ UNCHANGED <<exits, heartbeats, now>>
    /\ UNCHANGED notEntry

\* except Exception as e
WorkRaises(e) ==
    /\ main.pc = "try"
    /\ main' = [main EXCEPT !.pc = "beat", !.raised = TRUE, !.err = e]
    /\ UNCHANGED <<exits, heartbeats, now>>
    /\ UNCHANGED notEntry

\* update_heartbeat: the row is written and committed, or the database
\* fails and the exception is printed inside update_heartbeat.
MainHeartbeat(ok) ==
    /\ main.pc = "beat"
    /\ LET a == HeartbeatArgs(main)
       IN  /\ main' = [main EXCEPT !.pc = "print", !.wrote = ok,
                                   !.attempts = Append(@, a)]
           /\ heartbeats' =
                IF ok THEN UpsertHeartbeat(heartbeats, a.name, a.success,
                                           a.error, a.posts_found, now)
                ELSE heartbeats
    /\ now' = now + 1
    /\ UNCHANGED exits
    /\ UNCHANGED notEntry

\* print(...); sys.exit(0)
MainExit ==
    /\ main.pc = "print"
    /\ exits' = Append(exits, [main EXCEPT !.pc = "exited",
                                           !.status = ExitStatus(main)])
    /\ main' = NoMain
    /\ UNCHANGED <<heartbeats, now>>
    /\ UNCHANGED notEntry

InitEntry == StoreIdle /\ RetryIdle /\ JobsIdle /\ PipelineIdle

NextEntry ==
    \/ \E name \in EntryNames : MainStart(name)
    \/ \E n \in Counts : WorkReturns(n)
    \/ \E e \in ErrorArgs : WorkRaises(e)
    \/ \E ok \in BOOLEAN : MainHeartbeat(ok)
    \/ MainExit

SpecEntry == InitEntry /\ [][NextEntry]_vars

-----------------------------------------------------------------------------
(* Claims about the cron entry points *)

\* C22: an entry point that has been started can always take its next step
\* up to its exit, it exits with status 0 whether the work returned or
\* raised and whether or not the heartbeat was written, and by then it has
\* called update_heartbeat exactly once, for its own name: with success and
\* the returned count when the work returned, with failure and the text of
\* the error when the work raised.
C22_AlwaysExitsZeroWithOneHeartbeat ==
    /\ main.pc \in {"try", "beat", "print"} => ENABLED NextEntry
    /\ Len(main.attempts) <= 1
    /\ \A k \in DOMAIN exits :
          LET e == exits[k]
          IN  /\ e.status = 0
              /\ Len(e.attempts) = 1
              /\ e.attempts[1].name = e.name
              /\ ~e.raised =>
                    /\ e.attempts[1].success
                    /\ e.attempts[1].posts_found = e.ret
              /\ e.raised =>
                    /\ ~e.attempts[1].success
                    /\ e.attempts[1].error = e.err

\* The classifier's entry point has exited after classify_posts raised and
\* the heartbeat write failed; the reddit one after a return of 2.
C22_Witness ==
    /\ \E k \in DOMAIN exits :
          /\ exits[k].name = "classifier"
          /\ exits[k].raised
          /\ ~exits[k].wrote
    /\ \E k \in DOMAIN exits :
          /\ exits[k].name = "reddit"
          /\ ~exits[k].raised
          /\ exits[k].ret = 2
          /\ exits[k].wrote

-----------------------------------------------------------------------------
(* The dashboard's writes (dashboard.py) beside the scrapers and the        *)
(* classifier                                                               *)

MaxEdits == 2

\* The options of the status selectbox.
Statuses == {"new", "reviewed", "actioned", "ignored"}

\* The responses of the model API the runs beside the dashboard receive.
DashResponses ==
    {[kind |-> "timeout"]}
    \cup {[kind |-> "json", value |-> Object(VerdictKeys, r)] :
             r \in {<<>>, <<"s1">>, <<"s1", "s2">>}}

\* get_opportunities: the analysis rows joined to their post and their
\* business, with relevance_score >= 7.
Listed(id) ==
    /\ id \in DOMAIN analysis
    /\ \E k \in DOMAIN posts : posts[k].id = analysis[id].post_id
    /\ analysis[id].business_id \in bizRows
    /\ analysis[id].relevance_score >= 7

\* update_analysis_status: UPDATE analysis SET status = ? WHERE id = ?
SetStatus(table, id, new_status) ==
    [table EXCEPT ![id].status = new_status]

\* The positions of the keywords of a business.
KeywordsOf(b) == {k \in DOMAIN KeywordRows : KeywordRows[k].business_id = b}

\* A scraper stores a post that was not in the table.
InsertFreshPost ==
    /\ Len(posts) < MaxPosts
    /\ posts' = Append(posts, NewRow(posts, "reddit",
                                     <<"reddit", Len(posts) + 1>>, "b1"))
    /\ UNCHANGED <<registryVars, classifierVars, dashVars>>
    /\ UNCHANGED notDash

\* render_opportunities_tab: another option of the selectbox of a listed
\* row is chosen; update_analysis_status.
UpdateAnalysisStatus(id, new_status) ==
    /\ dash.edits < MaxEdits
    /\ Listed(id)
    /\ new_status # analysis[id].status
    /\ analysis' = SetStatus(analysis, id, new_status)
    /\ dash' = [dash EXCEPT !.edits = @ + 1,
                            !.edited = @ \cup {id},
                            !.last = [id |-> id, before |-> analysis[id],
                                      after |-> analysis'[id]]]
    /\ UNCHANGED <<posts, registryVars, cls, runs, bizRows>>
    /\ UNCHANGED notDash

\* delete_business: DELETE FROM keywords WHERE business_id = ?; DELETE FROM
\* businesses WHERE id = ?. No connection sets PRAGMA foreign_keys, so the
\* references of the analysis table are not enforced. A deleted keyword is
\* selected by no query, as an inactive one.
DeleteBusiness(b) ==
    /\ b \in bizRows
    /\ bizRows' = bizRows \ {b}
    /\ kwActive' = [k \in DOMAIN kwActive |->
                      IF k \in KeywordsOf(b) THEN FALSE ELSE kwActive[k]]
    /\ dash' = [dash EXCEPT !.deleted = @ \cup {b}]
    /\ UNCHANGED <<posts, bizActive, classifierVars>>
    /\ UNCHANGED notDash

\* add_business: refused when a business has the slug; else the row gets
\* the next id (AUTOINCREMENT: an id is not used again), is_active 1, and
\* its keywords are stored.
AddBusiness(slug) ==
    /\ IF \E b \in bizRows : Slug(b) = slug
       THEN UNCHANGED <<registryVars, dashVars>>
       ELSE /\ dash.next \in BusinessIds
            /\ Slug(dash.next) = slug
            /\ bizRows' = bizRows \cup {dash.next}
            /\ bizActive' = [bizActive EXCEPT ![dash.next] = TRUE]
            /\ kwActive' = [k \in DOMAIN kwActive |->
                              IF k \in KeywordsOf(dash.next) THEN TRUE
                              ELSE kwActive[k]]
            /\ dash' = [dash EXCEPT !.next = @ + 1]
    /\ UNCHANGED <<posts, classifierVars>>
    /\ UNCHANGED notDash

InitDash ==
    /\ StoreIdle
    /\ RetryIdle
    /\ bizActive = [b \in BusinessIds |-> b = 1]
    /\ kwActive = [k \in DOMAIN KeywordRows |-> k \in KeywordsOf(1)]
    /\ hb = [a \in Adapters |-> NoRow]
    /\ now = 0
    /\ job = [r \in Jobs |-> NoJob]
    /\ HeartbeatIdle
    /\ ClassifierIdle
    /\ SuggesterIdle
    /\ EntryIdle
    /\ bizRows = {1}
    /\ dash = [NoDash EXCEPT !.next = 2]
    /\ FeedIdle

NextDash ==
    \/ InsertFreshPost
    \/ \E n \in 1..MaxBatch : ClassifyStart(n, TRUE)
    \/ \E resp \in DashResponses : ClassifyOne(resp)
    \/ ClassifyReturn
    \/ ClassifyExit
    \/ \E id \in 1..(2 * MaxPosts), st \in Statuses :
          UpdateAnalysisStatus(id, st)
    \/ \E b \in BusinessIds : DeleteBusiness(b)
    \/ \E slug \in {"s1", "s2"} : AddBusiness(slug)

SpecDash == InitDash /\ [][NextDash]_vars

-----------------------------------------------------------------------------
(* Claims about the workflow status and the references of analysis rows *)

Workflow ==
    {<<"new", "reviewed">>, <<"reviewed", "actioned">>, <<"new", "ignored">>}

\* C23: an analysis row has the status 'new' until a status update, every
\* status update follows one of new -> reviewed, reviewed -> actioned and
\* new -> ignored, and it changes no other field of the row.
C23_WorkflowTransitions ==
    /\ \A id \in DOMAIN analysis :
          id \notin dash.edited => analysis[id].status = "new"
    /\ dash.last # NoEdit =>
          /\ <<dash.last.before.status, dash.last.after.status>> \in Workflow
          /\ [dash.last.after EXCEPT !.status = dash.last.before.status]
                = dash.last.before

\* C29: every analysis row refers to a post and to a business of the store,
\* and every post with an analysis row has one for a business of the store.
C29_VerdictsReferToStoredRows ==
    /\ \A id \in DOMAIN analysis :
          /\ \E k \in DOMAIN posts : posts[k].id = analysis[id].post_id
          /\ analysis[id].business_id \in bizRows
    /\ \A k \in DOMAIN posts :
          posts[k].id \notin Unanalyzed(analysis) =>
             \E id \in DOMAIN analysis :
                /\ analysis[id].post_id = posts[k].id
                /\ analysis[id].business_id \in bizRows

-----------------------------------------------------------------------------
(* Claims about stored posts *)

\* Every row of the posts table is in its place, unchanged, after the step.
RowsKept == \A i \in DOMAIN posts : i \in DOMAIN posts' /\ posts'[i] = posts[i]

\* A caller's insert_post returns in the step.
Returns(p) == ipc[p] # "idle" /\ ipc'[p] = "idle"

\* C24: no step changes or removes a stored post, and an insert_post that
\* returns while a row with its source_id is stored leaves the table as it
\* was, whatever the other columns it was given.
C24_StoredPostsImmutable ==
    [][/\ RowsKept
       /\ \A p \in Procs :
             (Returns(p) /\ HasSid(posts, iarg[p].source_id)) =>
                posts' = posts]_vars

\* An insert_post for a stored source_id with another body has returned
\* false, and the row first stored is the only one of that source_id.
C24_Witness ==
    \E k \in DOMAIN calls :
        /\ calls[k].hadSid
        /\ ~calls[k].stored
        /\ calls[k].ret # "true"
        /\ Cardinality({i \in DOMAIN posts :
                           posts[i].source_id = calls[k].source_id}) = 1

-----------------------------------------------------------------------------
(* Claims about failures and counts within a classification batch *)

\* The posts that own an analysis row.
Owning == {analysis[k].post_id : k \in DOMAIN analysis}

\* C25: no run of classify_posts raises, whatever the model answers for a
\* post, and a run that has ended has sent every post of its batch to the
\* model.
C25_PostFailureIsIsolated ==
    /\ ~cls.raised
    /\ \A k \in DOMAIN runs : ~runs[k].raised
    /\ cls.pc = "done" => cls.sent = Len(cls.batch)

\* C27: a post the run has counted as classified owns an analysis row, so
\* it is not among the posts without analysis that a later run selects.
C27_CountedPostOwnsARow ==
    (Called /\ cls.count > cls.last.count) =>
        /\ cls.last.post \in Owning
        /\ cls.last.post \notin Unanalyzed(analysis)

-----------------------------------------------------------------------------
(* Repeated classify_posts runs of one batch size over a fixed posts table *)

\* What the model API answers for a post, on every run: a response that is
\* no JSON for the posts of feed.malformed, a complete verdict for the rest.
Answer(post) ==
    IF post \in feed.malformed THEN [kind |-> "nonjson"]
    ELSE [kind |-> "json", value |-> Object(VerdictKeys, <<"s1">>)]

\* The cron job starts classify_posts(batch_size).
FedStart == ClassifyStart(feed.batch_size, TRUE)

\* One turn of the loop, with the answer of the model for the post.
FedOne ==
    /\ cls.pc = "loop"
    /\ cls.i <= Len(cls.batch)
    /\ ClassifyOne(Answer(cls.batch[cls.i]))

\* The log of the finished runs is put away before the next cron run.
ForgetRuns ==
    /\ cls.pc = "idle"
    /\ runs # <<>>
    /\ runs' = <<>>
    /\ UNCHANGED <<posts, registryVars, analysis, cls>>
    /\ UNCHANGED notClassifier

InitStarve ==
    /\ \E k \in 1..MaxPosts : posts = PostsTable(k)
    /\ ipc = [p \in Procs |-> "idle"]
    /\ iarg = [p \in Procs |-> NoArg]
    /\ calls = <<>>
    /\ tick = 0
    /\ RetryIdle
    /\ bizActive = [b \in BusinessIds |-> TRUE]
    /\ kwActive = [i \in DOMAIN KeywordRows |-> TRUE]
    /\ hb = [a \in Adapters |-> NoRow]
    /\ now = 0
    /\ job = [r \in Jobs |-> NoJob]
    /\ HeartbeatIdle
    /\ ClassifierIdle
    /\ SuggesterIdle
    /\ EntryIdle
    /\ DashIdle
    /\ \E n \in 1..MaxBatch, bad \in SUBSET (1..Len(posts)) :
          feed = [batch_size |-> n, malformed |-> bad]

NextStarve ==
    \/ FedStart
    \/ FedOne
    \/ ClassifyReturn
    \/ ClassifyExit
    \/ ForgetRuns

\* The scheduler keeps starting the job and a started run keeps going.
SpecStarve == InitStarve /\ [][NextStarve]_vars /\ WF_vars(NextStarve)

\* A post without an analysis row that the model answers with a verdict.
Waiting(p) ==
    /\ p <= Len(posts)
    /\ p \notin feed.malformed
    /\ p \notin Owning

\* C28: with no posts arriving, every post without an analysis row for
\* which the model returns a well-formed verdict gets its analysis row in
\* the end under repeated runs of one batch size, however many newer posts
\* are answered with a malformed response on every run.
C28_NoStarvation ==
    \A p \in 1..MaxPosts : [](Waiting(p) => <>(p \in Owning))

-----------------------------------------------------------------------------
(* Claims about the pacing of the adapters *)

\* C26: in a run of an adapter no keyword's search is issued after the
\* search of an earlier keyword without the pacing sleep in between,
\* whether the earlier search returned or failed.
C26_PacedBetweenKeywords ==
    \A r \in Jobs : job[r].unpaced = {}

-----------------------------------------------------------------------------
(* Claims about the dedup key of the Reddit adapter *)

\* The stored rows of the upstream Reddit post with a native id.
RedditRowsOf(native) ==
    {i \in DOMAIN posts :
        posts[i].source = "reddit" /\ posts[i].source_id[2] = native}

\* C30: each upstream Reddit post is stored at most once, whichever of the
\* JSON and HTML paths retrieved it, in this run or in another.
C30_RedditPostStoredOnce ==
    \A native \in NativeIds : Cardinality(RedditRowsOf(native)) <= 1

====
